---------------------------- MODULE Spec2Model ----------------------------
(***************************************************************************)
(* Chapter segmentation and citation inlining of a word-processing         *)
(* document (app.py and the step*_ scripts).                                *)
(*                                                                         *)
(* Text is a sequence of characters; a character is a one-letter string,   *)
(* except the en dash and the em dash, written "EN" and "EM".  A run is a  *)
(* record of its text and font properties, a paragraph a record of its     *)
(* style and runs, and a paragraph's text the concatenation of its runs'   *)
(* texts.  The tri-state font properties of python-docx (None, True,       *)
(* False) are the strings "None", "True" and "False".                      *)
(***************************************************************************)
EXTENDS Integers, Sequences, FiniteSets, TLC

VARIABLES
    pc,                    \* which call is pending / has returned
    selected_chapters,     \* create_chapter_boundaries: the selected candidates
    total_paragraphs,      \* create_chapter_boundaries: len(doc.paragraphs)
    boundaries,            \* the chapter boundaries (start, end, title)
    paragraph,             \* replace_citations_in_paragraph: the paragraph
    all_refs,              \* the reference map, number -> text
    style,                 \* the citation format chosen
    allow_paren,           \* "Also convert (n) patterns"
    changes,               \* replace_citations_in_paragraph: its result
    orig_paragraph,        \* the paragraph as it was passed in
    super_runs,            \* the paragraph's runs when the superscript loop ends
    doc,                   \* process_single_chapter: doc.paragraphs
    delete_notes_sections, \* "Delete Notes sections after processing"
    paragraphs,            \* process_single_chapter: its local list of paragraphs
    result,                \* process_single_chapter: (references, replacements)
    orig_doc,              \* the chapter document as it was passed in
    original_doc,          \* the uploaded document's paragraphs
    chapter_docs,          \* the chapter documents extracted so far
    final_doc,             \* rejoin_chapters: the final document
    found_sections,        \* find_notes_sections: its result
    section_range,         \* the reference parsers: (start, end)
    document,              \* para_iter: the document, its tables included
    yielded,               \* para_iter: the paragraphs yielded so far
    candidates,            \* the main flow: the chapter candidates
    selected_font_size     \* the main flow: the font size chosen for chapter headers

vars == <<pc, selected_chapters, total_paragraphs, boundaries, paragraph,
          all_refs, style, allow_paren, changes, orig_paragraph, super_runs,
          doc, delete_notes_sections, paragraphs, result, orig_doc,
          original_doc, chapter_docs, final_doc, found_sections,
          section_range, document, yielded, candidates,
          selected_font_size>>

---------------------------------------------------------------------------
(* Characters and Python's string functions *)

EN == "EN"
EM == "EM"

Digits == <<"0", "1", "2", "3", "4", "5", "6", "7", "8", "9">>

\* str.isdigit / the regular expressions' \d, for one character
IsDigit(c) == \E i \in 1..10 : Digits[i] = c

DigitVal(c) == (CHOOSE i \in 1..10 : Digits[i] = c) - 1

\* the regular expressions' \s and what str.strip removes
IsSpace(c) == c \in {" ", "\t"}

\* the regular expressions' \w: letters, digits and the underscore
IsWord(c) ==
    \/ IsDigit(c)
    \/ c = "_"
    \/ c \in {"a", "b", "c", "d", "e", "f", "g", "h", "i", "j", "k", "l", "m",
              "n", "o", "p", "q", "r", "s", "t", "u", "v", "w", "x", "y", "z",
              "A", "B", "C", "D", "E", "F", "G", "H", "I", "J", "K", "L", "M",
              "N", "O", "P", "Q", "R", "S", "T", "U", "V", "W", "X", "Y", "Z"}

\* int(s) of a non-empty string of digits
RECURSIVE ToInt(_)
ToInt(s) ==
    IF s = <<>> THEN 0
    ELSE 10 * ToInt(SubSeq(s, 1, Len(s) - 1)) + DigitVal(s[Len(s)])

\* str(n) of a natural number (the f-strings' {num})
RECURSIVE ToStr(_)
ToStr(n) ==
    IF n < 10 THEN <<Digits[n + 1]>>
    ELSE ToStr(n \div 10) \o <<Digits[(n % 10) + 1]>>

AllDigits(s) == \A i \in 1..Len(s) : IsDigit(s[i])

RECURSIVE LStrip(_)
LStrip(s) ==
    IF s # <<>> /\ IsSpace(s[1]) THEN LStrip(Tail(s)) ELSE s

RECURSIVE RStrip(_)
RStrip(s) ==
    IF s # <<>> /\ IsSpace(s[Len(s)]) THEN RStrip(SubSeq(s, 1, Len(s) - 1))
    ELSE s

\* str.strip()
Strip(s) == RStrip(LStrip(s))

\* sep.join(parts)
RECURSIVE Join(_, _)
Join(sep, parts) ==
    IF parts = <<>> THEN <<>>
    ELSE IF Len(parts) = 1 THEN parts[1]
    ELSE parts[1] \o sep \o Join(sep, Tail(parts))

\* the number of digits s holds from position i on, up to the first non-digit
RECURSIVE DigitSpan(_, _)
DigitSpan(s, i) ==
    IF i <= Len(s) /\ IsDigit(s[i]) THEN 1 + DigitSpan(s, i + 1) ELSE 0

\* re.findall(r'\d+', s) followed by int() of every match
RECURSIVE FindAllNums(_)
FindAllNums(s) ==
    IF s = <<>> THEN <<>>
    ELSE IF IsDigit(s[1])
         THEN LET n == DigitSpan(s, 1)
              IN  <<ToInt(SubSeq(s, 1, n))>> \o FindAllNums(SubSeq(s, n + 1, Len(s)))
         ELSE FindAllNums(Tail(s))

\* sorted(set(nums)) of a sequence of numbers
RECURSIVE SortedSet(_)
SortedSet(S) ==
    IF S = {} THEN <<>>
    ELSE LET m == CHOOSE x \in S : \A y \in S : x <= y
         IN  <<m>> \o SortedSet(S \ {m})

Range(f) == {f[i] : i \in DOMAIN f}

---------------------------------------------------------------------------
(* Runs and paragraphs (python-docx) *)

\* what Paragraph.add_run(text) creates: no font property set
NewRun(text) ==
    [text |-> text, name |-> "None", size |-> "None", bold |-> "None",
     italic |-> "None", underline |-> "None", superscript |-> "None",
     subscript |-> "None", color |-> "None"]

RECURSIVE ConcatTexts(_)
ConcatTexts(runs) ==
    IF runs = <<>> THEN <<>> ELSE runs[1].text \o ConcatTexts(Tail(runs))

\* Paragraph.text
ParaText(p) == ConcatTexts(p.runs)

\* a truthy tri-state property
Truthy(flag) == flag = "True"

---------------------------------------------------------------------------
(* Citation rewriting, app.py *)

\* the largest end of a dash range that is expanded
MaxRangeEnd == 999
\* a dash range is expanded when end - start is below this
MaxRangeWidth == 50
\* numbers from here on are taken for years and never replaced
YearThreshold == 1000

\* a character of the class [0-9,\-EN EM\s] a marker's inside is made of
IsMarkerChar(c) == IsDigit(c) \/ c \in {",", "-", EN, EM} \/ IsSpace(c)

\* a character of the class [,\s] expand_number_range splits at
IsSeparator(c) == c = "," \/ IsSpace(c)

\* num_str.replace(EN, '-').replace(EM, '-')
DashesToHyphen(s) == [i \in 1..Len(s) |-> IF s[i] \in {EN, EM} THEN "-" ELSE s[i]]

\* the number of characters from position i on, up to the first separator
RECURSIVE PartSpan(_, _)
PartSpan(s, i) ==
    IF i <= Len(s) /\ ~IsSeparator(s[i]) THEN 1 + PartSpan(s, i + 1) ELSE 0

\* re.split(r'[,\s]+', s) without the empty parts, which the loop skips
RECURSIVE SplitParts(_)
SplitParts(s) ==
    IF s = <<>> THEN <<>>
    ELSE IF IsSeparator(s[1]) THEN SplitParts(Tail(s))
    ELSE LET n == PartSpan(s, 1)
         IN  <<SubSeq(s, 1, n)>> \o SplitParts(SubSeq(s, n + 1, Len(s)))

HasHyphen(part) == \E i \in 1..Len(part) : part[i] = "-"

FirstHyphen(part) == CHOOSE i \in 1..Len(part) :
                        part[i] = "-" /\ \A j \in 1..(i - 1) : part[j] # "-"

\* The numbers one part of a marker stands for.  A part with a hyphen is
\* split at its first hyphen; int() raises on an empty string and on a string
\* holding another hyphen after a digit, and the part is dropped; int() reads
\* "-5" as a negative end, which the range test then rejects.
PartNumbers(part) ==
    IF HasHyphen(part)
    THEN LET h == FirstHyphen(part)
             a == SubSeq(part, 1, h - 1)
             b == SubSeq(part, h + 1, Len(part))
         IN  IF a # <<>> /\ AllDigits(a) /\ b # <<>> /\ AllDigits(b)
                THEN IF /\ 1 <= ToInt(a)
                        /\ ToInt(a) <= ToInt(b)
                        /\ ToInt(b) <= MaxRangeEnd
                        /\ ToInt(b) - ToInt(a) < MaxRangeWidth
                     THEN ToInt(a)..ToInt(b)
                     ELSE {}
                ELSE {}
    ELSE IF AllDigits(part) THEN {ToInt(part)} ELSE {}

\* expand_number_range(num_str): the sorted distinct numbers of a marker
expand_number_range(num_str) ==
    LET parts == SplitParts(DashesToHyphen(num_str))
    IN  SortedSet(UNION {PartNumbers(parts[i]) : i \in 1..Len(parts)})

\* the three citation formats of the selectbox; only the first character of
\* the choice is read
BracketStyle == <<"[", "1", ".", " ", "R", "]">>
DashStyle == <<EM, " ", "1", ".", " ", "R">>
ParenStyle == <<"(", "R", ")">>
Styles == {BracketStyle, DashStyle, ParenStyle}

format_reference(num, text, sty) ==
    IF sty[1] = EM THEN <<" ", EM, " ">> \o ToStr(num) \o <<".", " ">> \o text
    ELSE IF sty[1] = "[" THEN <<" ", "[">> \o ToStr(num) \o <<".", " ">> \o text \o <<"]">>
    ELSE <<" ", "(">> \o text \o <<")">>

\* max(all_refs.keys())
MaxKey(refs) == CHOOSE m \in DOMAIN refs : \A k \in DOMAIN refs : k <= m

\* Replaceable without the test for years
ReplaceableYears(nums, refs) ==
    /\ nums # <<>>
    /\ \A i \in 1..Len(nums) :
          1 <= nums[i] /\ nums[i] <= MaxKey(refs) /\ nums[i] \in DOMAIN refs

\* the test both marker forms share: every number is a reference number in
\* range and none is a year
Replaceable(nums, refs) ==
    /\ nums # <<>>
    /\ \A i \in 1..Len(nums) :
          1 <= nums[i] /\ nums[i] <= MaxKey(refs) /\ nums[i] \in DOMAIN refs
    /\ ~ \E i \in 1..Len(nums) : nums[i] >= YearThreshold

\* replace_square(match): what a bracket or paren match is replaced by
replace_square(whole, inner, refs, sty) ==
    LET nums == expand_number_range(inner)
    IN  IF Replaceable(nums, refs)
        THEN Join(<<";", " ">>,
                  [i \in 1..Len(nums) |-> format_reference(nums[i], refs[nums[i]], sty)])
        ELSE whole

\* the number of marker characters from position i on
RECURSIVE MarkerSpan(_, _)
MarkerSpan(s, i) ==
    IF i <= Len(s) /\ IsMarkerChar(s[i]) THEN 1 + MarkerSpan(s, i + 1) ELSE 0

\* re.sub(open + r'([0-9,\-EN EM\s]+)' + close, replace_square, text): the
\* leftmost matches, none overlapping, each replaced by replace_square's result
RECURSIVE SubMarkers(_, _, _, _, _)
SubMarkers(text, open, close, refs, sty) ==
    IF text = <<>> THEN <<>>
    ELSE LET n == MarkerSpan(text, 2)
         IN  IF text[1] = open /\ n >= 1 /\ Len(text) >= n + 2 /\ text[n + 2] = close
             THEN replace_square(SubSeq(text, 1, n + 2), SubSeq(text, 2, n + 1), refs, sty)
                  \o SubMarkers(SubSeq(text, n + 3, Len(text)), open, close, refs, sty)
             ELSE <<text[1]>> \o SubMarkers(Tail(text), open, close, refs, sty)

\* one turn of the loop over the superscript runs
SuperscriptRun(run, refs, sty) ==
    LET nums == FindAllNums(run.text)
    IN  IF Truthy(run.superscript) /\ Replaceable(nums, refs)
        THEN [run EXCEPT
                !.superscript = "None",
                !.text = Join(<<";", " ">>,
                              [i \in 1..Len(nums) |->
                                 Strip(format_reference(nums[i], refs[nums[i]], sty))])]
        ELSE run

\* the runs when the loop over the superscript runs ends
SuperscriptPass(runs, refs, sty) ==
    [k \in 1..Len(runs) |-> SuperscriptRun(runs[k], refs, sty)]

\* TextPass with the paren pass made whatever allow_paren says
TextPassParens(text, refs, sty, paren) ==
    SubMarkers(SubMarkers(text, "[", "]", refs, sty), "(", ")", refs, sty)

\* the paragraph's text after the bracket pass and, when allowed, the paren pass
TextPass(text, refs, sty, paren) ==
    LET square == SubMarkers(text, "[", "]", refs, sty)
    IN  IF paren THEN SubMarkers(square, "(", ")", refs, sty) ELSE square

\* Collapse without the clearing of the other runs
CollapseFirst(runs, text) ==
    IF runs = <<>> THEN <<NewRun(text)>>
    ELSE [k \in 1..Len(runs) |->
            IF k = 1 THEN [runs[k] EXCEPT !.text = text] ELSE runs[k]]

\* the runs once the text has changed: all cleared, the text in the first
Collapse(runs, text) ==
    IF runs = <<>> THEN <<NewRun(text)>>
    ELSE [k \in 1..Len(runs) |->
            [runs[k] EXCEPT !.text = IF k = 1 THEN text ELSE <<>>]]

\* replace_citations_in_paragraph(paragraph, all_refs, style, allow_paren):
\* the paragraph it leaves, the runs as the superscript loop left them, and
\* the number of changes it returns
replace_citations_in_paragraph(p, refs, sty, paren) ==
    IF DOMAIN refs = {}
    THEN [paragraph |-> p, super_runs |-> p.runs, changes |-> 0]
    ELSE LET sup == SuperscriptPass(p.runs, refs, sty)
             rewritten == {k \in 1..Len(sup) :
                              /\ Truthy(p.runs[k].superscript)
                              /\ Replaceable(FindAllNums(p.runs[k].text), refs)}
             original_text == ConcatTexts(sup)
             modified_text == TextPass(original_text, refs, sty, paren)
         IN  IF modified_text # original_text
             THEN [paragraph |-> [p EXCEPT !.runs = Collapse(sup, modified_text)],
                   super_runs |-> sup,
                   changes |-> Cardinality(rewritten) + 1]
             ELSE [paragraph |-> [p EXCEPT !.runs = sup],
                   super_runs |-> sup,
                   changes |-> Cardinality(rewritten)]

---------------------------------------------------------------------------
(* Notes sections and their references, app.py *)

UpperCase == <<"A", "B", "C", "D", "E", "F", "G", "H", "I", "J", "K", "L", "M",
               "N", "O", "P", "Q", "R", "S", "T", "U", "V", "W", "X", "Y", "Z">>
LowerCase == <<"a", "b", "c", "d", "e", "f", "g", "h", "i", "j", "k", "l", "m",
               "n", "o", "p", "q", "r", "s", "t", "u", "v", "w", "x", "y", "z">>

\* re.I: letters are compared without their case
LowerChar(c) ==
    IF \E i \in 1..26 : UpperCase[i] = c
    THEN LowerCase[CHOOSE i \in 1..26 : UpperCase[i] = c]
    ELSE c

Lower(s) == [i \in 1..Len(s) |-> LowerChar(s[i])]

\* the words of HEADING_RE: notes?|references?|endnotes?|sources?|
\* bibliography|citations?
HeadingWords ==
    {<<"n", "o", "t", "e">>, <<"n", "o", "t", "e", "s">>,
     <<"r", "e", "f", "e", "r", "e", "n", "c", "e">>,
     <<"r", "e", "f", "e", "r", "e", "n", "c", "e", "s">>,
     <<"e", "n", "d", "n", "o", "t", "e">>, <<"e", "n", "d", "n", "o", "t", "e", "s">>,
     <<"s", "o", "u", "r", "c", "e">>, <<"s", "o", "u", "r", "c", "e", "s">>,
     <<"b", "i", "b", "l", "i", "o", "g", "r", "a", "p", "h", "y">>,
     <<"c", "i", "t", "a", "t", "i", "o", "n">>,
     <<"c", "i", "t", "a", "t", "i", "o", "n", "s">>}

\* HEADING_RE without its colon
HEADING_RE_words(text) == Lower(text) \in HeadingWords

\* HEADING_RE.match(text) for a stripped text: a heading word, then
\* whitespace, then at most one colon
HEADING_RE(text) ==
    LET body == IF text # <<>> /\ text[Len(text)] = ":"
                THEN RStrip(SubSeq(text, 1, Len(text) - 1))
                ELSE text
    IN  Lower(body) \in HeadingWords

is_notes_heading(p) ==
    LET text == Strip(ParaText(p))
    IN  IF text # <<>> THEN HEADING_RE(text) ELSE FALSE

\* find_section_end(paragraphs, start), from position i with the blank
\* paragraphs counted so far; indices are Python's, from 0
RECURSIVE SectionEndFrom(_, _, _)
SectionEndFrom(ps, i, consecutive_blanks) ==
    IF i >= Len(ps) THEN Len(ps)
    ELSE IF is_notes_heading(ps[i + 1]) THEN i
    ELSE IF Strip(ParaText(ps[i + 1])) = <<>>
         THEN IF consecutive_blanks + 1 >= 2 THEN i
              ELSE SectionEndFrom(ps, i + 1, consecutive_blanks + 1)
         ELSE SectionEndFrom(ps, i + 1, 0)

find_section_end(ps, start) == SectionEndFrom(ps, start, 0)

\* find_notes_sections(paragraphs): (heading, start, end) of every heading,
\* in the order of the paragraphs
find_notes_sections(ps) ==
    LET heads == SortedSet({i \in 0..(Len(ps) - 1) : is_notes_heading(ps[i + 1])})
    IN  [k \in 1..Len(heads) |->
            <<heads[k], heads[k] + 1, find_section_end(ps, heads[k] + 1)>>]

\* The first of the five patterns of parse_references_advanced that matches a
\* stripped text: digits, then '.', ')' or ']', or whitespace, or a dash or a
\* colon, then optional whitespace and a remainder of at least one character.
MatchReference(text) ==
    LET d == DigitSpan(text, 1)
        none == [found |-> FALSE, num |-> 0, rest |-> <<>>]
    IN  IF d = 0 \/ d >= Len(text) THEN none
        ELSE LET c == text[d + 1]
                 rest == LStrip(SubSeq(text, d + 2, Len(text)))
             IN  IF /\ \/ c \in {".", ")", "]"}
                       \/ IsSpace(c)
                       \/ c \in {"-", EN, EM, ":"}
                    /\ rest # <<>>
                 THEN [found |-> TRUE, num |-> ToInt(SubSeq(text, 1, d)), rest |-> rest]
                 ELSE none

\* refs[num] = text
Store(refs, num, text) ==
    [k \in DOMAIN refs \cup {num} |-> IF k = num THEN text ELSE refs[k]]

\* Update that keeps the text a number already has
UpdateKeep(old, new) ==
    [k \in DOMAIN old \cup DOMAIN new |-> IF k \in DOMAIN old THEN old[k] ELSE new[k]]

\* all_refs.update(refs)
Update(old, new) ==
    [k \in DOMAIN old \cup DOMAIN new |-> IF k \in DOMAIN new THEN new[k] ELSE old[k]]

\* the loop of parse_references_advanced from paragraph i on; open says that
\* current_num is not None
RECURSIVE ParseFrom(_, _, _, _, _, _, _)
ParseFrom(ps, i, end, refs, open, current_num, current_text) ==
    LET commit == IF open /\ Strip(current_text) # <<>>
                  THEN Store(refs, current_num, Strip(current_text))
                  ELSE refs
    IN  IF i >= end \/ i >= Len(ps) THEN commit
        ELSE LET text == Strip(ParaText(ps[i + 1]))
                 m == MatchReference(text)
             IN  IF text = <<>>
                 THEN ParseFrom(ps, i + 1, end, refs, open, current_num, current_text)
                 ELSE IF m.found
                 THEN ParseFrom(ps, i + 1, end, commit, TRUE, m.num, m.rest)
                 ELSE IF open
                 THEN ParseFrom(ps, i + 1, end, refs, open, current_num,
                                current_text \o <<" ">> \o text)
                 ELSE ParseFrom(ps, i + 1, end, refs, open, current_num, current_text)

EmptyRefs == [k \in {} |-> <<>>]

parse_references_advanced(ps, start, end) ==
    ParseFrom(ps, start, end, EmptyRefs, FALSE, 0, <<>>)

\* the reference maps of the sections merged in their order
RECURSIVE MergeSections(_, _, _)
MergeSections(ps, sections, refs) ==
    IF sections = <<>> THEN refs
    ELSE MergeSections(ps, Tail(sections),
             Update(refs, parse_references_advanced(ps, sections[1][2], sections[1][3])))

\* notes_ranges: every index from a heading up to its section's end
NotesRanges(sections) ==
    UNION {sections[k][1]..(sections[k][3] - 1) : k \in 1..Len(sections)}

\* the paragraphs left when those at the indices in gone are removed
RECURSIVE DropIndices(_, _, _)
DropIndices(ps, i, gone) ==
    IF i >= Len(ps) THEN <<>>
    ELSE (IF i \in gone THEN <<>> ELSE <<ps[i + 1]>>) \o DropIndices(ps, i + 1, gone)

\* one for each paragraph that was changed, however many changes it had
SumChanged(s) == Cardinality({i \in 1..Len(s) : s[i] > 0})

RECURSIVE Sum(_)
Sum(s) == IF s = <<>> THEN 0 ELSE s[1] + Sum(Tail(s))

\* process_single_chapter without its two early returns
process_single_chapter_through(d, sty, paren, delete) ==
    LET ps == d
        notes_sections == find_notes_sections(ps)
        refs == MergeSections(ps, notes_sections, EmptyRefs)
        notes_ranges == NotesRanges(notes_sections)
        done == [i \in 1..Len(ps) |->
                    IF (i - 1) \notin notes_ranges /\ Strip(ParaText(ps[i])) # <<>>
                    THEN replace_citations_in_paragraph(ps[i], refs, sty, paren)
                    ELSE [paragraph |-> ps[i], super_runs |-> ps[i].runs, changes |-> 0]]
        after == [i \in 1..Len(ps) |-> done[i].paragraph]
    IN  [doc |-> IF delete THEN DropIndices(after, 0, notes_ranges) ELSE after,
         paragraphs |-> after,
         refs_found |-> Cardinality(DOMAIN refs),
         total_replacements |-> Sum([i \in 1..Len(ps) |-> done[i].changes])]

\* process_single_chapter rewriting the paragraphs of the notes as well
process_single_chapter_everywhere(d, sty, paren, delete) ==
    LET ps == d
        notes_sections == find_notes_sections(ps)
        refs == MergeSections(ps, notes_sections, EmptyRefs)
        notes_ranges == NotesRanges(notes_sections)
        done == [i \in 1..Len(ps) |->
                    IF Strip(ParaText(ps[i])) # <<>>
                    THEN replace_citations_in_paragraph(ps[i], refs, sty, paren)
                    ELSE [paragraph |-> ps[i], super_runs |-> ps[i].runs, changes |-> 0]]
        after == [i \in 1..Len(ps) |-> done[i].paragraph]
    IN  IF notes_sections = <<>> \/ DOMAIN refs = {}
        THEN [doc |-> d, paragraphs |-> ps, refs_found |-> 0, total_replacements |-> 0]
        ELSE [doc |-> IF delete THEN DropIndices(after, 0, notes_ranges) ELSE after,
              paragraphs |-> after,
              refs_found |-> Cardinality(DOMAIN refs),
              total_replacements |-> Sum([i \in 1..Len(ps) |-> done[i].changes])]

\* process_single_chapter(doc, style, allow_paren, delete_notes_sections):
\* the document's paragraphs when it returns, its local list paragraphs
\* (which still holds the paragraphs it removed) and the two counts
process_single_chapter(d, sty, paren, delete) ==
    LET ps == d
        notes_sections == find_notes_sections(ps)
        refs == MergeSections(ps, notes_sections, EmptyRefs)
        notes_ranges == NotesRanges(notes_sections)
        done == [i \in 1..Len(ps) |->
                    IF (i - 1) \notin notes_ranges /\ Strip(ParaText(ps[i])) # <<>>
                    THEN replace_citations_in_paragraph(ps[i], refs, sty, paren)
                    ELSE [paragraph |-> ps[i], super_runs |-> ps[i].runs, changes |-> 0]]
        after == [i \in 1..Len(ps) |-> done[i].paragraph]
    IN  IF notes_sections = <<>> \/ DOMAIN refs = {}
        THEN [doc |-> d, paragraphs |-> ps, refs_found |-> 0, total_replacements |-> 0]
        ELSE [doc |-> IF delete THEN DropIndices(after, 0, notes_ranges) ELSE after,
              paragraphs |-> after,
              refs_found |-> Cardinality(DOMAIN refs),
              total_replacements |-> Sum([i \in 1..Len(ps) |-> done[i].changes])]

---------------------------------------------------------------------------
(* Notes sections and citation rewriting, step4_citation_processing.py *)

\* find_section_end of step 4, from position i: a section ends only at the
\* second blank paragraph in a row or at the end of the document
RECURSIVE SectionEndFrom_step4(_, _, _)
SectionEndFrom_step4(ps, i, consecutive_blanks) ==
    IF i >= Len(ps) THEN Len(ps)
    ELSE IF Strip(ParaText(ps[i + 1])) = <<>>
         THEN IF consecutive_blanks + 1 >= 2 THEN i
              ELSE SectionEndFrom_step4(ps, i + 1, consecutive_blanks + 1)
         ELSE SectionEndFrom_step4(ps, i + 1, 0)

find_section_end_step4(ps, start) == SectionEndFrom_step4(ps, start, 0)

\* find_notes_sections of step 4: p.text and HEADING_RE.match(p.text.strip())
find_notes_sections_step4(ps) ==
    LET heads == SortedSet({i \in 0..(Len(ps) - 1) :
                              /\ ParaText(ps[i + 1]) # <<>>
                              /\ HEADING_RE(Strip(ParaText(ps[i + 1])))})
    IN  [k \in 1..Len(heads) |->
            <<heads[k], heads[k] + 1, find_section_end_step4(ps, heads[k] + 1)>>]

\* a character of the class [\.\)\]\s]
IsEntryMark(c) == c \in {".", ")", "]"} \/ IsSpace(c)

\* the number of characters of that class from position i on
RECURSIVE EntryMarkSpan(_, _)
EntryMarkSpan(s, i) ==
    IF i <= Len(s) /\ IsEntryMark(s[i]) THEN 1 + EntryMarkSpan(s, i + 1) ELSE 0

\* The first of the two patterns of parse_references that matches a stripped
\* text: digits, then one or more of '.', ')', ']' and whitespace, then a
\* remainder of at least one character (the last of those characters when
\* nothing follows them); or digits, a dash or a colon, optional whitespace
\* and a remainder.
MatchReference_step4(text) ==
    LET d == DigitSpan(text, 1)
        k == EntryMarkSpan(text, d + 1)
        none == [found |-> FALSE, num |-> 0, rest |-> <<>>]
        num == ToInt(SubSeq(text, 1, d))
    IN  IF d = 0 \/ d >= Len(text) THEN none
        ELSE IF k >= 1
        THEN IF d + k < Len(text)
             THEN [found |-> TRUE, num |-> num, rest |-> SubSeq(text, d + k + 1, Len(text))]
             ELSE IF k >= 2
             THEN [found |-> TRUE, num |-> num, rest |-> <<text[Len(text)]>>]
             ELSE none
        ELSE IF text[d + 1] \in {"-", EN, EM, ":"}
                /\ LStrip(SubSeq(text, d + 2, Len(text))) # <<>>
        THEN [found |-> TRUE, num |-> num, rest |-> LStrip(SubSeq(text, d + 2, Len(text)))]
        ELSE none

\* the loop of parse_references from paragraph i on; open says that
\* current_num is not None.  current_num is tested for truth, so that the
\* number 0 neither commits nor collects continuation lines.
RECURSIVE ParseFrom_step4(_, _, _, _, _, _, _)
ParseFrom_step4(ps, i, end, refs, open, current_num, current_text) ==
    LET commit == IF open /\ current_num # 0 /\ current_text # <<>>
                  THEN Store(refs, current_num, Strip(current_text))
                  ELSE refs
    IN  IF i >= end \/ i >= Len(ps) THEN commit
        ELSE LET text == Strip(ParaText(ps[i + 1]))
                 m == MatchReference_step4(text)
             IN  IF text = <<>>
                 THEN ParseFrom_step4(ps, i + 1, end, refs, open, current_num, current_text)
                 ELSE IF m.found
                 THEN ParseFrom_step4(ps, i + 1, end, commit, TRUE, m.num, m.rest)
                 ELSE IF open /\ current_num # 0
                 THEN ParseFrom_step4(ps, i + 1, end, refs, open, current_num,
                                      current_text \o <<" ">> \o text)
                 ELSE ParseFrom_step4(ps, i + 1, end, refs, open, current_num,
                                      current_text)

parse_references(ps, start, end) ==
    ParseFrom_step4(ps, start, end, EmptyRefs, FALSE, 0, <<>>)

RECURSIVE MergeSections_step4(_, _, _)
MergeSections_step4(ps, sections, refs) ==
    IF sections = <<>> THEN refs
    ELSE MergeSections_step4(ps, Tail(sections),
             Update(refs, parse_references(ps, sections[1][2], sections[1][3])))

\* replace_citation(match): what the marker [num] is replaced by
replace_citation(whole, num, refs, fmt) ==
    IF num \in DOMAIN refs
    THEN IF fmt[1] = "["
         THEN <<" ", "[">> \o ToStr(num) \o <<".", " ">> \o refs[num] \o <<"]">>
         ELSE IF fmt[1] = EM
         THEN <<" ", EM, " ">> \o ToStr(num) \o <<".", " ">> \o refs[num]
         ELSE <<" ", "(">> \o refs[num] \o <<")">>
    ELSE whole

\* re.sub(r'\[(\d+)\]', replace_citation, text)
RECURSIVE SubCitations(_, _, _)
SubCitations(text, refs, fmt) ==
    IF text = <<>> THEN <<>>
    ELSE LET n == DigitSpan(text, 2)
         IN  IF text[1] = "[" /\ n >= 1 /\ Len(text) >= n + 2 /\ text[n + 2] = "]"
             THEN replace_citation(SubSeq(text, 1, n + 2),
                                   ToInt(SubSeq(text, 2, n + 1)), refs, fmt)
                  \o SubCitations(SubSeq(text, n + 3, Len(text)), refs, fmt)
             ELSE <<text[1]>> \o SubCitations(Tail(text), refs, fmt)

\* one turn of the loop over the paragraphs of process_chapter_citations: the
\* paragraph it leaves and what it adds to replacements
RewriteParagraph_step4(p, refs, fmt) ==
    LET original == ParaText(p)
        modified == SubCitations(original, refs, fmt)
    IN  IF modified # original
        THEN [paragraph |-> [p EXCEPT !.runs = Collapse(p.runs, modified)],
              changes |-> 1]
        ELSE [paragraph |-> p, changes |-> 0]

\* process_chapter_citations(doc, fmt, delete_notes): the document's
\* paragraphs when it returns, its local list paragraphs and the two counts
process_chapter_citations(d, fmt, delete_notes) ==
    LET ps == d
        notes_sections == find_notes_sections_step4(ps)
        refs == MergeSections_step4(ps, notes_sections, EmptyRefs)
        notes_ranges == NotesRanges(notes_sections)
        done == [i \in 1..Len(ps) |->
                    IF (i - 1) \notin notes_ranges /\ ParaText(ps[i]) # <<>>
                    THEN RewriteParagraph_step4(ps[i], refs, fmt)
                    ELSE [paragraph |-> ps[i], changes |-> 0]]
        after == [i \in 1..Len(ps) |-> done[i].paragraph]
    IN  IF notes_sections = <<>> \/ DOMAIN refs = {}
        THEN [doc |-> d, paragraphs |-> ps, refs_found |-> 0, replacements |-> 0]
        ELSE [doc |-> IF delete_notes THEN DropIndices(after, 0, notes_ranges) ELSE after,
              paragraphs |-> after,
              refs_found |-> Cardinality(DOMAIN refs),
              replacements |-> Sum([i \in 1..Len(ps) |-> done[i].changes])]

---------------------------------------------------------------------------
(* Chapter boundaries, app.py *)

\* the length a derived title is cut to
TitleLength == 50

\* re.sub(r'[^\w\s-]', '', text)
RECURSIVE KeepTitleChars(_)
KeepTitleChars(text) ==
    IF text = <<>> THEN <<>>
    ELSE (IF IsWord(text[1]) \/ IsSpace(text[1]) \/ text[1] = "-"
          THEN <<text[1]>> ELSE <<>>) \o KeepTitleChars(Tail(text))

\* re.sub(r'\s+', '_', text)
RECURSIVE UnderscoreSpaces(_)
UnderscoreSpaces(text) ==
    IF text = <<>> THEN <<>>
    ELSE IF IsSpace(text[1])
         THEN <<"_">> \o UnderscoreSpaces(LStrip(text))
         ELSE <<text[1]>> \o UnderscoreSpaces(Tail(text))

\* the title of the i-th boundary (i from 0), cleaned for a file name
CleanTitle(text, i) ==
    LET clean == UnderscoreSpaces(KeepTitleChars(text))
        title == SubSeq(clean, 1, IF Len(clean) < TitleLength THEN Len(clean) ELSE TitleLength)
    IN  IF title = <<>>
        THEN <<"C", "h", "a", "p", "t", "e", "r", "_">> \o ToStr(i + 1)
        ELSE title

\* one step of list.sort: x put behind the last element that is not larger
RECURSIVE InsertByIndex(_, _)
InsertByIndex(sorted, x) ==
    IF sorted = <<>> THEN <<x>>
    ELSE IF sorted[Len(sorted)].index <= x.index THEN Append(sorted, x)
    ELSE Append(InsertByIndex(SubSeq(sorted, 1, Len(sorted) - 1), x), sorted[Len(sorted)])

\* the list as it was given, not sorted
SortByIndexKeep(chapters) == chapters

\* selected_chapters.sort(key=lambda x: x['index']), a stable sort
RECURSIVE SortByIndex(_)
SortByIndex(chapters) ==
    IF chapters = <<>> THEN <<>>
    ELSE InsertByIndex(SortByIndex(SubSeq(chapters, 1, Len(chapters) - 1)),
                       chapters[Len(chapters)])

FullDocument == <<"F", "u", "l", "l", "_", "D", "o", "c", "u", "m", "e", "n", "t">>

\* create_chapter_boundaries(selected_chapters, total_paragraphs): the
\* triples (start, end, title), paragraphs counted from 0
create_chapter_boundaries(chapters, total) ==
    IF chapters = <<>> THEN <<<<0, total - 1, FullDocument>>>>
    ELSE LET sorted == SortByIndex(chapters)
         IN  [i \in 1..Len(sorted) |->
                <<sorted[i].index,
                  IF i + 1 <= Len(sorted) THEN sorted[i + 1].index - 1 ELSE total - 1,
                  CleanTitle(sorted[i].text, i - 1)>>]

---------------------------------------------------------------------------
(* Extracting and rejoining chapter documents, app.py *)

\* the run create_chapter_document adds for a run of the original: its text,
\* font name, size, bold, italic, underline and superscript
ExtractRun(run) ==
    [NewRun(run.text) EXCEPT
        !.name = run.name, !.size = run.size, !.bold = run.bold,
        !.italic = run.italic, !.underline = run.underline,
        !.superscript = run.superscript]

ExtractParagraph(p) ==
    [style |-> p.style, runs |-> [k \in 1..Len(p.runs) |-> ExtractRun(p.runs[k])]]

Min(a, b) == IF a < b THEN a ELSE b

\* create_chapter_document(original_doc, start_para, end_para)
create_chapter_document(d, start_para, end_para) ==
    LET stop == Min(end_para + 1, Len(d))
    IN  [k \in 1..(IF stop > start_para THEN stop - start_para ELSE 0) |->
            ExtractParagraph(d[start_para + k])]

\* RejoinRun without the underline
RejoinRunPlain(run) ==
    [NewRun(run.text) EXCEPT
        !.name = run.name, !.size = run.size, !.bold = run.bold,
        !.italic = run.italic]

\* the run rejoin_chapters adds for a run of a chapter document: its text,
\* font name, size, bold, italic and underline
RejoinRun(run) ==
    [NewRun(run.text) EXCEPT
        !.name = run.name, !.size = run.size, !.bold = run.bold,
        !.italic = run.italic, !.underline = run.underline]

RejoinParagraph(p) ==
    [style |-> p.style, runs |-> [k \in 1..Len(p.runs) |-> RejoinRun(p.runs[k])]]

\* Document.add_page_break(): a paragraph of one run that holds the break,
\* written as the character "PAGEBREAK"
PageBreak == [style |-> "Normal", runs |-> <<NewRun(<<"PAGEBREAK">>)>>]

\* RejoinFrom with a page break before the first chapter document as well
RECURSIVE RejoinFromBreaks(_, _)
RejoinFromBreaks(docs, i) ==
    IF i >= Len(docs) THEN <<>>
    ELSE <<PageBreak>>
         \o [k \in 1..Len(docs[i + 1]) |-> RejoinParagraph(docs[i + 1][k])]
         \o RejoinFromBreaks(docs, i + 1)

\* rejoin_chapters(chapter_docs), from the i-th chapter document on (i from 0)
RECURSIVE RejoinFrom(_, _)
RejoinFrom(docs, i) ==
    IF i >= Len(docs) THEN <<>>
    ELSE (IF i > 0 THEN <<PageBreak>> ELSE <<>>)
         \o [k \in 1..Len(docs[i + 1]) |-> RejoinParagraph(docs[i + 1][k])]
         \o RejoinFrom(docs, i + 1)

rejoin_chapters(docs) == RejoinFrom(docs, 0)

---------------------------------------------------------------------------
(* Rejoining chapter documents, step5_rejoin_chapters.py *)

\* the run rejoin_chapters_with_formatting adds: the properties above, the
\* colour when the run has one, superscript and subscript
RejoinRun_step5(run) ==
    [NewRun(run.text) EXCEPT
        !.name = run.name, !.size = run.size, !.bold = run.bold,
        !.italic = run.italic, !.underline = run.underline,
        !.color = IF run.color # "None" THEN run.color ELSE "None",
        !.superscript = run.superscript, !.subscript = run.subscript]

RejoinParagraph_step5(p) ==
    [style |-> p.style, runs |-> [k \in 1..Len(p.runs) |-> RejoinRun_step5(p.runs[k])]]

\* rejoin_chapters_with_formatting(chapter_docs), from the i-th chapter
\* document on (i from 0)
RECURSIVE RejoinFrom_step5(_, _)
RejoinFrom_step5(docs, i) ==
    IF i >= Len(docs) THEN <<>>
    ELSE (IF i > 0 THEN <<PageBreak>> ELSE <<>>)
         \o [k \in 1..Len(docs[i + 1]) |-> RejoinParagraph_step5(docs[i + 1][k])]
         \o RejoinFrom_step5(docs, i + 1)

rejoin_chapters_with_formatting(docs) == RejoinFrom_step5(docs, 0)

---------------------------------------------------------------------------
(* The values of the variables a call does not use *)

NoParagraph == [style |-> "Normal", runs |-> <<>>]

IdleBoundaries ==
    selected_chapters = <<>> /\ total_paragraphs = 0

IdleParagraph ==
    /\ paragraph = NoParagraph /\ orig_paragraph = NoParagraph
    /\ all_refs = EmptyRefs /\ changes = 0 /\ super_runs = <<>>

IdleOptions ==
    style = BracketStyle /\ allow_paren = FALSE /\ delete_notes_sections = FALSE

IdleChapter ==
    doc = <<>> /\ orig_doc = <<>> /\ paragraphs = <<>> /\ result = <<0, 0>>

IdleAssemble ==
    original_doc = <<>> /\ chapter_docs = <<>> /\ final_doc = <<>>

IdleSections ==
    found_sections = <<>> /\ section_range = <<0, 0>>

IdleParaIter ==
    document = <<>> /\ yielded = <<>>

IdleFlow ==
    candidates = <<>> /\ selected_font_size = "None"

---------------------------------------------------------------------------
(* create_chapter_boundaries on every selection of chapter starts *)

\* the longest document
MaxParas == 4

\* the texts of the candidates: a candidate's text is never empty
ChapterTexts ==
    << <<"C", "h", " ", "1">>, <<"!", "?">>, <<"A", " ", " ", "-", "b", ".">> >>

Candidate(i) == [index |-> i, text |-> ChapterTexts[(i % 3) + 1]]

\* the selections of distinct paragraphs of a document of total paragraphs,
\* in every order
Injections(n, total) ==
    {g \in [1..n -> 0..(total - 1)] : \A a, b \in 1..n : a # b => g[a] # g[b]}

Selections(total) ==
    UNION {{[k \in 1..n |-> Candidate(f[k])] : f \in Injections(n, total)} :
             n \in 0..total}

InitBoundaries ==
    /\ pc = "create_chapter_boundaries"
    /\ total_paragraphs \in 1..MaxParas
    /\ selected_chapters \in Selections(total_paragraphs)
    /\ boundaries = <<>>
    /\ IdleParagraph /\ IdleOptions /\ IdleChapter /\ IdleAssemble
    /\ IdleSections /\ IdleParaIter /\ IdleFlow

\* boundaries = create_chapter_boundaries(selected_chapters, len(doc.paragraphs));
\* the call sorts the list it is given
CreateChapterBoundaries ==
    /\ pc = "create_chapter_boundaries"
    /\ boundaries' = create_chapter_boundaries(selected_chapters, total_paragraphs)
    /\ selected_chapters' = SortByIndex(selected_chapters)
    /\ pc' = "boundaries_done"
    /\ UNCHANGED <<found_sections, section_range, document, yielded,
                   candidates, selected_font_size,
                   total_paragraphs, paragraph, all_refs, style, allow_paren,
                   changes, orig_paragraph, super_runs, doc, delete_notes_sections,
                   paragraphs, result, orig_doc, original_doc, chapter_docs,
                   final_doc>>

NextBoundaries == CreateChapterBoundaries

SpecBoundaries == InitBoundaries /\ [][NextBoundaries]_vars

\* the boundaries that hold paragraph i
Holding(i) ==
    {k \in 1..Len(boundaries) : boundaries[k][1] <= i /\ i <= boundaries[k][2]}

\* C1: for a non-empty selection of N distinct chapter starts in a document of
\* P paragraphs, create_chapter_boundaries returns N boundaries whose ranges
\* hold every paragraph 0..P-1 exactly once, the paragraphs before the first
\* selected start included.
C1_BoundariesCoverDocument ==
    (pc = "boundaries_done" /\ selected_chapters # <<>>) =>
        /\ Len(boundaries) = Len(selected_chapters)
        /\ \A i \in 0..(total_paragraphs - 1) : Cardinality(Holding(i)) = 1

\* create_chapter_boundaries called with no selection returns one boundary,
\* from paragraph 0 to the last paragraph
EmptySelectionWholeDocument ==
    (pc = "boundaries_done" /\ selected_chapters = <<>>) =>
        /\ Len(boundaries) = 1
        /\ boundaries[1][1] = 0
        /\ boundaries[1][2] = total_paragraphs - 1

\* the selected starts
SelectedIndices == {selected_chapters[k].index : k \in 1..Len(selected_chapters)}

\* the boundaries b are in ascending start order, start at the selected
\* indices, each ends one before the next one's start, the last at the last
\* paragraph, and none ends before it starts
ChainedBoundaries(b) ==
    /\ Len(b) = Len(selected_chapters)
    /\ {b[k][1] : k \in 1..Len(b)} = SelectedIndices
    /\ \A k \in 1..(Len(b) - 1) : b[k][1] < b[k + 1][1] /\ b[k][2] = b[k + 1][1] - 1
    /\ b[Len(b)][2] = total_paragraphs - 1
    /\ \A k \in 1..Len(b) : b[k][1] <= b[k][2]

\* C23: for a selection of distinct chapter starts given in any order,
\* create_chapter_boundaries returns the boundaries in ascending start order;
\* each starts at a selected index, each but the last ends one before the
\* next one's start, the last ends at P-1, and start <= end for each.
C23_BoundariesSortedAndChained ==
    [][(pc = "create_chapter_boundaries" /\ selected_chapters # <<>>) =>
           ChainedBoundaries(boundaries')]_vars

\* three boundaries made, the first of them not at paragraph 0
C23_Witness ==
    /\ pc = "boundaries_done"
    /\ Len(boundaries) = 3
    /\ boundaries[1][1] > 0
    /\ ChainedBoundaries(boundaries)

---------------------------------------------------------------------------
(* replace_citations_in_paragraph on paragraphs that hold citation markers *)

\* the largest reference number of the notes
MaxRef == 3

\* the numbers a marker is written with: the reference numbers, 0, the last
\* number below the year threshold and the first year
MarkerNums == (0..MaxRef) \cup {YearThreshold - 1, YearThreshold}

\* the text of reference k
RefText(k) == <<"R">> \o ToStr(k)

RefsOf(keys) == [k \in keys |-> RefText(k)]

\* the reference maps: none, one reference, all of them, one numbered 0, one
\* that starts with a year, one just below the year threshold
RefMaps ==
    {RefsOf({}), RefsOf({1}), RefsOf(1..MaxRef), RefsOf({0, 1}),
     RefsOf({1, YearThreshold}), RefsOf({2, YearThreshold - 1})}

\* what stands between a marker's brackets: a number, a dash range, a list,
\* a list with a range, and malformed ones
MarkerTexts ==
    {ToStr(a) : a \in MarkerNums}
    \cup {ToStr(a) \o <<"-">> \o ToStr(b) : a \in 0..MaxRef, b \in MarkerNums}
    \cup {ToStr(1) \o <<EN>> \o ToStr(b) : b \in MarkerNums}
    \cup {ToStr(a) \o <<",", " ">> \o ToStr(b) : a \in 1..MaxRef, b \in MarkerNums}
    \cup {<<"1", ",", " ", "2", "-">> \o ToStr(c) : c \in MarkerNums}
    \cup {<<"1", "-", "-", "2">>, <<"-", "1">>, <<"1", "-">>, <<" ">>, <<"x">>}

SeeText == <<"S", "e", "e", " ">>
ForText == <<" ", "f", "o", "r", " ", "[", "2", "]", ".">>

SuperRun(text) == [NewRun(text) EXCEPT !.superscript = "True"]

\* the paragraphs: a superscript marker after a baseline run; a bracketed
\* and a parenthesized marker in a run of its own between two others; a
\* parenthesized marker followed by the bracketed marker [2]; a superscript
\* marker in the first run followed by the bracketed marker [2]
MarkerParagraphs ==
    {[style |-> "Normal", runs |-> <<NewRun(SeeText), SuperRun(m)>>] : m \in MarkerTexts}
    \cup {[style |-> "Normal",
           runs |-> <<NewRun(SeeText), NewRun(<<"[">> \o m \o <<"]">>), NewRun(<<".">>)>>] :
            m \in MarkerTexts}
    \cup {[style |-> "Normal",
           runs |-> <<NewRun(SeeText), NewRun(<<"(">> \o m \o <<")">>), NewRun(<<".">>)>>] :
            m \in MarkerTexts}
    \cup {[style |-> "Normal",
           runs |-> <<NewRun(SeeText \o <<"(">> \o m \o <<")">> \o ForText)>>] :
            m \in MarkerTexts}
    \cup {[style |-> "Normal", runs |-> <<SuperRun(m), NewRun(ForText)>>] :
            m \in MarkerTexts}

InitParagraph ==
    /\ pc = "replace_citations_in_paragraph"
    /\ paragraph \in MarkerParagraphs
    /\ orig_paragraph = paragraph
    /\ all_refs \in RefMaps
    /\ style \in Styles
    /\ allow_paren \in BOOLEAN
    /\ changes = 0
    /\ super_runs = <<>>
    /\ delete_notes_sections = FALSE
    /\ boundaries = <<>>
    /\ IdleBoundaries /\ IdleChapter /\ IdleAssemble
    /\ IdleSections /\ IdleParaIter /\ IdleFlow

\* changes = replace_citations_in_paragraph(paragraph, all_refs, style, allow_paren)
ReplaceCitationsInParagraph ==
    /\ pc = "replace_citations_in_paragraph"
    /\ LET r == replace_citations_in_paragraph(paragraph, all_refs, style, allow_paren)
       IN  /\ paragraph' = r.paragraph
           /\ super_runs' = r.super_runs
           /\ changes' = r.changes
    /\ pc' = "paragraph_done"
    /\ UNCHANGED <<found_sections, section_range, document, yielded,
                   candidates, selected_font_size,
                   selected_chapters, total_paragraphs, boundaries, all_refs, style,
                   allow_paren, orig_paragraph, doc, delete_notes_sections,
                   paragraphs, result, orig_doc, original_doc, chapter_docs,
                   final_doc>>

NextParagraph == ReplaceCitationsInParagraph

SpecParagraph == InitParagraph /\ [][NextParagraph]_vars

---------------------------------------------------------------------------
(* What the claims about markers are stated with *)

\* the three literal forms of a rendered reference
Rendered(num, text, sty) ==
    IF sty = DashStyle THEN <<EM, " ">> \o ToStr(num) \o <<".", " ">> \o text
    ELSE IF sty = BracketStyle THEN <<"[">> \o ToStr(num) \o <<".", " ">> \o text \o <<"]">>
    ELSE <<"(">> \o text \o <<")">>

\* the markers of a text, whole, in their order: open, then one or more
\* marker characters, then close
RECURSIVE Markers(_, _, _)
Markers(text, open, close) ==
    IF text = <<>> THEN <<>>
    ELSE LET n == MarkerSpan(text, 2)
         IN  IF text[1] = open /\ n >= 1 /\ Len(text) >= n + 2 /\ text[n + 2] = close
             THEN <<SubSeq(text, 1, n + 2)>>
                  \o Markers(SubSeq(text, n + 3, Len(text)), open, close)
             ELSE Markers(Tail(text), open, close)

\* a is b with some elements left out
RECURSIVE IsSubseq(_, _)
IsSubseq(a, b) ==
    IF a = <<>> THEN TRUE
    ELSE IF b = <<>> THEN FALSE
    ELSE IF a[1] = b[1] THEN IsSubseq(Tail(a), Tail(b))
    ELSE IsSubseq(a, Tail(b))

HasYear(text) == \E n \in Range(FindAllNums(text)) : n >= YearThreshold

SuperscriptRuns == {k \in 1..Len(orig_paragraph.runs) :
                      Truthy(orig_paragraph.runs[k].superscript)}

\* C3 as amended: a superscript run is rewritten exactly when it holds a
\* number, and each of its numbers is at least 1, a key of the map and below
\* 1000
SuperEligible(k) ==
    LET nums == FindAllNums(orig_paragraph.runs[k].text)
    IN  /\ nums # <<>>
        /\ \A n \in Range(nums) : n >= 1 /\ n \in DOMAIN all_refs /\ n < YearThreshold

\* C3 as claimed: without the lower limit of 1
SuperEligibleClaimed(k) ==
    LET nums == FindAllNums(orig_paragraph.runs[k].text)
    IN  /\ nums # <<>>
        /\ \A n \in Range(nums) : n \in DOMAIN all_refs /\ n < YearThreshold

\* the renderings of all the numbers of run k joined by "; "
SuperRendering(k) ==
    LET nums == FindAllNums(orig_paragraph.runs[k].text)
    IN  Join(<<";", " ">>,
             [i \in 1..Len(nums) |-> Rendered(nums[i], all_refs[nums[i]], style)])

\* C3 (amended): when the loop over the superscript runs ends, a superscript
\* run is rewritten if and only if it holds at least one number and every
\* number it holds is at least 1, a key of the reference map and below 1000;
\* a rewritten run holds the renderings of all its numbers joined by "; " and
\* is no longer superscript, any other run is as it was.
C3_SuperscriptRewrittenIffEligible ==
    pc = "paragraph_done" =>
        \A k \in SuperscriptRuns :
            IF SuperEligible(k)
            THEN /\ super_runs[k].text = SuperRendering(k)
                 /\ super_runs[k].superscript = "None"
            ELSE super_runs[k] = orig_paragraph.runs[k]

\* C3 as claimed: the same with every key of the map eligible, 0 included
C3_Claimed ==
    pc = "paragraph_done" =>
        \A k \in SuperscriptRuns :
            IF SuperEligibleClaimed(k)
            THEN /\ super_runs[k].text = SuperRendering(k)
                 /\ super_runs[k].superscript = "None"
            ELSE super_runs[k] = orig_paragraph.runs[k]

\* a superscript run of two numbers rewritten, in a paragraph whose map also
\* holds a number the run does not name
C3_Witness ==
    /\ pc = "paragraph_done"
    /\ \E k \in SuperscriptRuns :
          /\ Len(FindAllNums(orig_paragraph.runs[k].text)) = 2
          /\ SuperEligible(k)
          /\ super_runs[k].superscript = "None"
          /\ super_runs[k].text # orig_paragraph.runs[k].text

\* the text the bracket and paren passes read
TextBefore == ConcatTexts(super_runs)

\* C4: a marker that holds a number of 1000 or more is never replaced: a
\* superscript run with such a number is as it was when the superscript loop
\* ends, and every bracketed or parenthesized marker with such a number is
\* still in the paragraph's text, whatever allow_paren and the map are.
C4_YearsNeverReplaced ==
    pc = "paragraph_done" =>
        /\ \A k \in SuperscriptRuns :
              HasYear(orig_paragraph.runs[k].text) =>
                  super_runs[k] = orig_paragraph.runs[k]
        /\ IsSubseq(SelectSeq(Markers(TextBefore, "[", "]"), HasYear),
                    Markers(ParaText(paragraph), "[", "]"))
        /\ IsSubseq(SelectSeq(Markers(TextBefore, "(", ")"), HasYear),
                    Markers(ParaText(paragraph), "(", ")"))

\* what stands between the brackets of a marker
Inner(marker) == SubSeq(marker, 2, Len(marker) - 1)

\* the parts of a marker: split at commas and whitespace, dashes as hyphens
Parts(marker) == SplitParts(DashesToHyphen(Inner(marker)))

\* a part of the form a-b, a and b numbers
IsRange(part) ==
    /\ HasHyphen(part)
    /\ LET h == FirstHyphen(part)
       IN  /\ 1 < h /\ h < Len(part)
           /\ AllDigits(SubSeq(part, 1, h - 1))
           /\ AllDigits(SubSeq(part, h + 1, Len(part)))

RangeStart(part) == ToInt(SubSeq(part, 1, FirstHyphen(part) - 1))
RangeEnd(part) == ToInt(SubSeq(part, FirstHyphen(part) + 1, Len(part)))

\* a range that is reversed, too wide or has an endpoint above the limit
Unreasonable(part) ==
    /\ IsRange(part)
    /\ \/ RangeStart(part) > RangeEnd(part)
       \/ RangeEnd(part) - RangeStart(part) >= MaxRangeWidth
       \/ RangeEnd(part) > MaxRangeEnd

HasUnreasonableRange(marker) ==
    \E part \in Range(Parts(marker)) : Unreasonable(part)

\* a paragraph of three runs whose second run is one bracketed marker
IsBracketParagraph(p) ==
    /\ Len(p.runs) = 3
    /\ Markers(p.runs[2].text, "[", "]") = <<p.runs[2].text>>

\* C6's markers: every part a number or a range a-b with a <= b
ClaimShaped(marker) ==
    /\ Parts(marker) # <<>>
    /\ \A part \in Range(Parts(marker)) :
          IF IsRange(part) THEN RangeStart(part) <= RangeEnd(part)
          ELSE AllDigits(part)

\* C6's expansion: the listed numbers and every integer of each range
ClaimExpansion(marker) ==
    UNION {IF IsRange(part) THEN RangeStart(part)..RangeEnd(part) ELSE {ToInt(part)} :
             part \in Range(Parts(marker))}

ClaimEligible(marker) ==
    /\ ClaimExpansion(marker) # {}
    /\ \A n \in ClaimExpansion(marker) : n \in DOMAIN all_refs /\ n < YearThreshold

\* one entry per number of C6's expansion, ascending, joined by "; "
ClaimEntries(marker) ==
    LET nums == SortedSet(ClaimExpansion(marker))
    IN  Join(<<";", " ">>,
             [i \in 1..Len(nums) |-> format_reference(nums[i], all_refs[nums[i]], style)])

\* C6: a bracketed marker of numbers and ranges a-b with a <= b stands for
\* the listed numbers and every integer of each range; it is replaced if and
\* only if that expansion is not empty and each of its numbers is a key of
\* the map and below 1000, by one entry per number joined by "; "; otherwise
\* it stays as it is.  Stated for the markers whose numbers are all positive,
\* as reference numbers are.
C6_BracketExpansion ==
    (/\ pc = "paragraph_done"
     /\ DOMAIN all_refs # {}
     /\ IsBracketParagraph(orig_paragraph)
     /\ ClaimShaped(orig_paragraph.runs[2].text)
     /\ \A n \in ClaimExpansion(orig_paragraph.runs[2].text) : n >= 1) =>
        LET marker == orig_paragraph.runs[2].text
        IN  ParaText(paragraph) =
                orig_paragraph.runs[1].text
                \o (IF ClaimEligible(marker) THEN ClaimEntries(marker) ELSE marker)
                \o orig_paragraph.runs[3].text

\* C7: a bracketed or parenthesized marker that holds an unreasonable range
\* is rejected as a whole: it is still in the paragraph's text, also when its
\* other parts are reference numbers.
C7_UnreasonableRangeRejectsMarker ==
    pc = "paragraph_done" =>
        /\ IsSubseq(SelectSeq(Markers(TextBefore, "[", "]"), HasUnreasonableRange),
                    Markers(ParaText(paragraph), "[", "]"))
        /\ IsSubseq(SelectSeq(Markers(TextBefore, "(", ")"), HasUnreasonableRange),
                    Markers(ParaText(paragraph), "(", ")"))

\* the paragraphs "See (...) for [2]."
EndsWithBracketTwo(text) ==
    /\ Len(text) > Len(ForText)
    /\ SubSeq(text, Len(text) - Len(ForText) + 1, Len(text)) = ForText

\* C10: with allow_paren off no parenthesized marker is replaced, whatever
\* its numbers and the map: each is still in the paragraph's text; and a
\* bracketed marker of the same paragraph is replaced when it is eligible:
\* in "See (...) for [2]." only "[2]" changes when 2 is a reference.
C10_ParenOffNeverReplaced ==
    (pc = "paragraph_done" /\ ~allow_paren) =>
        /\ IsSubseq(Markers(TextBefore, "(", ")"),
                    Markers(ParaText(paragraph), "(", ")"))
        /\ (EndsWithBracketTwo(TextBefore) /\ DOMAIN all_refs # {}) =>
              ParaText(paragraph) =
                  SubSeq(TextBefore, 1, Len(TextBefore) - 4)
                  \o (IF 2 \in DOMAIN all_refs
                      THEN <<" ">> \o Rendered(2, all_refs[2], style)
                      ELSE <<"[", "2", "]">>)
                  \o <<".">>

\* allow_paren is off, the paragraph holds a parenthesized marker whose
\* numbers are all references and a bracketed one, and only the latter changed
C10_Witness ==
    /\ pc = "paragraph_done" /\ ~allow_paren
    /\ DOMAIN all_refs # {}
    /\ \E m \in Range(Markers(TextBefore, "(", ")")) :
          Replaceable(expand_number_range(Inner(m)), all_refs)
    /\ Markers(TextBefore, "[", "]") # <<>>
    /\ ParaText(paragraph) # TextBefore
    /\ changes = 1

---------------------------------------------------------------------------
(* process_single_chapter and process_chapter_citations on chapter documents *)

\* the longest chapter document
MaxChapterParas == 3

Para(runs) == [style |-> "Normal", runs |-> runs]

LoremText == <<"L", "o", "r", "e", "m", ".">>
DoeText == <<"D", "o", "e">>

\* the paragraphs of a chapter document: a body paragraph that ends in the
\* superscript marker 1, a Notes heading, the entries "1. Doe" and
\* "2. A [1]", which holds a bracketed marker, an entry whose number is a
\* superscript run, a paragraph with the bracketed marker [2], an entry
\* numbered 0, a paragraph with the bracketed marker [1] and the superscript
\* marker 1, and an empty paragraph.  Which of them are entries and which
\* are body depends on where they stand.  Extracted chapter documents hold
\* no tables.
ChapterParagraphs ==
    {Para(<<NewRun(LoremText), SuperRun(<<"1">>)>>),
     Para(<<NewRun(<<"N", "o", "t", "e", "s">>)>>),
     Para(<<NewRun(<<"1", ".", " ">> \o DoeText)>>),
     Para(<<NewRun(<<"2", ".", " ", "A", " ", "[", "1", "]">>)>>),
     Para(<<SuperRun(<<"1">>), NewRun(<<" ", "R", "o", "e">>)>>),
     Para(<<NewRun(<<"S", "e", "e", " ", "[", "2", "]", ".">>)>>),
     Para(<<NewRun(<<"0", ".", " ">> \o DoeText)>>),
     Para(<<NewRun(<<"[", "1", "]">>), SuperRun(<<"1">>)>>),
     Para(<<>>)}

ChapterDocuments ==
    UNION {[1..n -> ChapterParagraphs] : n \in 1..MaxChapterParas}

\* process_chapter_citations has no allow_paren
InitChapter ==
    /\ pc \in {"process_single_chapter", "process_chapter_citations"}
    /\ doc \in ChapterDocuments
    /\ orig_doc = doc
    /\ paragraphs = <<>>
    /\ result = <<0, 0>>
    /\ style \in Styles
    /\ allow_paren \in (IF pc = "process_single_chapter" THEN BOOLEAN ELSE {FALSE})
    /\ delete_notes_sections \in BOOLEAN
    /\ boundaries = <<>>
    /\ IdleBoundaries /\ IdleParagraph /\ IdleAssemble
    /\ IdleSections /\ IdleParaIter /\ IdleFlow

\* refs_found, citations_replaced =
\*     process_single_chapter(chapter_doc, fmt, allow_paren, delete_notes)
ProcessSingleChapter ==
    /\ pc = "process_single_chapter"
    /\ LET r == process_single_chapter(doc, style, allow_paren, delete_notes_sections)
       IN  /\ doc' = r.doc
           /\ paragraphs' = r.paragraphs
           /\ result' = <<r.refs_found, r.total_replacements>>
    /\ pc' = "chapter_done"
    /\ UNCHANGED <<found_sections, section_range, document, yielded,
                   candidates, selected_font_size,
                   selected_chapters, total_paragraphs, boundaries, paragraph,
                   all_refs, style, allow_paren, changes, orig_paragraph,
                   super_runs, delete_notes_sections, orig_doc, original_doc,
                   chapter_docs, final_doc>>

\* refs, citations = process_chapter_citations(chapter_doc, fmt, delete_notes)
ProcessChapterCitations ==
    /\ pc = "process_chapter_citations"
    /\ LET r == process_chapter_citations(doc, style, delete_notes_sections)
       IN  /\ doc' = r.doc
           /\ paragraphs' = r.paragraphs
           /\ result' = <<r.refs_found, r.replacements>>
    /\ pc' = "citations_done"
    /\ UNCHANGED <<found_sections, section_range, document, yielded,
                   candidates, selected_font_size,
                   selected_chapters, total_paragraphs, boundaries, paragraph,
                   all_refs, style, allow_paren, changes, orig_paragraph,
                   super_runs, delete_notes_sections, orig_doc, original_doc,
                   chapter_docs, final_doc>>

NextChapter == ProcessSingleChapter \/ ProcessChapterCitations

SpecChapter == InitChapter /\ [][NextChapter]_vars

\* the sections and the reference map of the chapter document passed in
OrigSections == find_notes_sections(orig_doc)
OrigRefs == MergeSections(orig_doc, OrigSections, EmptyRefs)

\* the same as step 4 finds them
OrigSections_step4 == find_notes_sections_step4(orig_doc)
OrigRefs_step4 == MergeSections_step4(orig_doc, OrigSections_step4, EmptyRefs)

\* C2: when the reference map of the chapter is empty (no heading, or
\* sections without a parsed entry), process_single_chapter and
\* process_chapter_citations return 0 references and 0 replacements and every
\* paragraph is as it was: none rewritten, none removed.
C2_EmptyMapChangesNothing ==
    (\/ pc = "chapter_done" /\ DOMAIN OrigRefs = {}
     \/ pc = "citations_done" /\ DOMAIN OrigRefs_step4 = {}) =>
        /\ result = <<0, 0>>
        /\ doc = orig_doc
        /\ paragraphs = orig_doc

\* a section without entries in a chapter that holds a marker, with the
\* removal of the notes asked for
C2_Witness ==
    /\ pc = "chapter_done"
    /\ OrigSections # <<>>
    /\ DOMAIN OrigRefs = {}
    /\ delete_notes_sections
    /\ \E i \in 1..Len(orig_doc) : Markers(ParaText(orig_doc[i]), "[", "]") # <<>>
    /\ doc = orig_doc

\* C5: no paragraph from a section's heading up to the section's end is
\* modified by the rewriting of process_single_chapter or of
\* process_chapter_citations, whatever it holds.
C5_NotesNeverRewritten ==
    /\ pc = "chapter_done" =>
          \A i \in NotesRanges(OrigSections) : paragraphs[i + 1] = orig_doc[i + 1]
    /\ pc = "citations_done" =>
          \A i \in NotesRanges(OrigSections_step4) : paragraphs[i + 1] = orig_doc[i + 1]

\* a paragraph of the notes that holds a marker the rewriting would replace,
\* in a chapter whose body was rewritten
C5_Witness ==
    /\ pc = "chapter_done"
    /\ result[2] > 0
    /\ \E i \in NotesRanges(OrigSections) :
          replace_citations_in_paragraph(orig_doc[i + 1], OrigRefs, style,
                                         allow_paren).changes > 0

\* C9: a body paragraph of a baseline run T and a superscript run N, a Notes
\* section whose only entry is "N. R" and the em-dash format give the
\* paragraph text T, a space, the em dash, " N. R", with 1 replacement and 1
\* reference.
C9_SuperscriptScenario ==
    (/\ pc = "chapter_done"
     /\ style = DashStyle
     /\ orig_doc = <<Para(<<NewRun(LoremText), SuperRun(<<"1">>)>>),
                     Para(<<NewRun(<<"N", "o", "t", "e", "s">>)>>),
                     Para(<<NewRun(<<"1", ".", " ">> \o DoeText)>>)>>) =>
        /\ ParaText(paragraphs[1]) =
              LoremText \o <<" ", EM, " ", "1", ".", " ">> \o DoeText
        /\ result = <<1, 1>>

---------------------------------------------------------------------------
(* create_chapter_document and rejoin_chapters on formatted documents *)

\* the paragraphs of an uploaded document: an empty one, one of a run
\* without font properties, a heading of a bold, underlined, coloured run
\* with a font name and size, and one whose second run is an italic
\* superscript
FormattedParagraphs ==
    {Para(<<>>),
     Para(<<NewRun(<<"a", " ", "b">>)>>),
     [style |-> "Heading 1",
      runs |-> <<[NewRun(<<"C", "h">>) EXCEPT
                    !.name = "Arial", !.size = "26", !.bold = "True",
                    !.italic = "False", !.underline = "True",
                    !.color = "FF0000"]>>],
     Para(<<[NewRun(<<"x">>) EXCEPT !.size = "12", !.bold = "False"],
            [NewRun(<<"1">>) EXCEPT
                !.italic = "True", !.superscript = "True", !.subscript = "False"]>>)}

FormattedDocuments == UNION {[1..n -> FormattedParagraphs] : n \in 1..MaxParas}

\* the boundaries handed to the extraction of a document of total
\* paragraphs: one boundary anywhere in the document or ending one past it,
\* or two or three boundaries that split the document
BoundaryLists(total) ==
    {<<<<a, b, CleanTitle(<<>>, 0)>>>> : a \in 0..(total - 1), b \in 0..total}
    \cup {<<<<0, c - 1, CleanTitle(<<>>, 0)>>, <<c, total - 1, CleanTitle(<<>>, 1)>>>> :
            c \in 1..(total - 1)}
    \cup UNION {{<<<<0, c - 1, CleanTitle(<<>>, 0)>>, <<c, d - 1, CleanTitle(<<>>, 1)>>,
                    <<d, total - 1, CleanTitle(<<>>, 2)>>>> : d \in (c + 1)..(total - 1)} :
                  c \in 1..(total - 1)}

InitAssemble ==
    /\ pc = "create_chapter_document"
    /\ original_doc \in FormattedDocuments
    /\ boundaries \in {b \in BoundaryLists(Len(original_doc)) : b[1][1] <= b[1][2]}
    /\ chapter_docs = <<>>
    /\ final_doc = <<>>
    /\ IdleBoundaries /\ IdleParagraph /\ IdleOptions /\ IdleChapter
    /\ IdleSections /\ IdleParaIter /\ IdleFlow

\* chapter_doc = create_chapter_document(doc, start, end);
\* chapter_docs.append(chapter_doc), for the next boundary
CreateChapterDocument ==
    /\ pc = "create_chapter_document"
    /\ LET b == boundaries[Len(chapter_docs) + 1]
       IN  chapter_docs' =
               Append(chapter_docs, create_chapter_document(original_doc, b[1], b[2]))
    /\ pc' = IF Len(chapter_docs) + 1 = Len(boundaries)
             THEN "rejoin_chapters" ELSE "create_chapter_document"
    /\ UNCHANGED <<found_sections, section_range, document, yielded,
                   candidates, selected_font_size,
                   selected_chapters, total_paragraphs, boundaries, paragraph,
                   all_refs, style, allow_paren, changes, orig_paragraph,
                   super_runs, doc, delete_notes_sections, paragraphs, result,
                   orig_doc, original_doc, final_doc>>

\* final_doc = rejoin_chapters(chapter_docs)
RejoinChapters ==
    /\ pc = "rejoin_chapters"
    /\ final_doc' = rejoin_chapters(chapter_docs)
    /\ pc' = "rejoin_done"
    /\ UNCHANGED <<found_sections, section_range, document, yielded,
                   candidates, selected_font_size,
                   selected_chapters, total_paragraphs, boundaries, paragraph,
                   all_refs, style, allow_paren, changes, orig_paragraph,
                   super_runs, doc, delete_notes_sections, paragraphs, result,
                   orig_doc, original_doc, chapter_docs>>

\* final_doc = rejoin_chapters_with_formatting(chapter_docs)
RejoinChaptersWithFormatting ==
    /\ pc = "rejoin_chapters"
    /\ final_doc' = rejoin_chapters_with_formatting(chapter_docs)
    /\ pc' = "rejoin_with_formatting_done"
    /\ UNCHANGED <<found_sections, section_range, document, yielded,
                   candidates, selected_font_size,
                   selected_chapters, total_paragraphs, boundaries, paragraph,
                   all_refs, style, allow_paren, changes, orig_paragraph,
                   super_runs, doc, delete_notes_sections, paragraphs, result,
                   orig_doc, original_doc, chapter_docs>>

NextAssemble ==
    CreateChapterDocument \/ RejoinChapters \/ RejoinChaptersWithFormatting

SpecAssemble == InitAssemble /\ [][NextAssemble]_vars

\* the same text and, run by run, the same text, bold, italic, underline,
\* font size and font name
SameFormatting(p, q) ==
    /\ ParaText(p) = ParaText(q)
    /\ Len(p.runs) = Len(q.runs)
    /\ \A k \in 1..Len(p.runs) :
          /\ p.runs[k].text = q.runs[k].text
          /\ p.runs[k].bold = q.runs[k].bold
          /\ p.runs[k].italic = q.runs[k].italic
          /\ p.runs[k].underline = q.runs[k].underline
          /\ p.runs[k].size = q.runs[k].size
          /\ p.runs[k].name = q.runs[k].name

OneBoundaryInside ==
    /\ Len(boundaries) = 1
    /\ 0 <= boundaries[1][1]
    /\ boundaries[1][1] <= boundaries[1][2]
    /\ boundaries[1][2] <= Len(original_doc) - 1

Rejoined == pc \in {"rejoin_done", "rejoin_with_formatting_done"}

\* C8: for a boundary (start, end) inside the document, extracting the
\* chapter and rejoining the list of that one chapter, with rejoin_chapters
\* or with rejoin_chapters_with_formatting, gives the paragraphs
\* start..end of the original, in order, each with the same text and, run by
\* run, the same text, bold, italic, underline, font size and font name.
C8_ExtractRejoinRoundTrip ==
    (Rejoined /\ OneBoundaryInside) =>
        LET start == boundaries[1][1]
            end == boundaries[1][2]
        IN  /\ Len(final_doc) = end - start + 1
            /\ \A k \in 1..Len(final_doc) :
                  SameFormatting(final_doc[k], original_doc[start + k])

\* a chapter cut out of the middle of a document, with a bold, underlined
\* run that has a font name and size
C8_Witness ==
    /\ pc = "rejoin_done" /\ OneBoundaryInside
    /\ boundaries[1][1] > 0
    /\ boundaries[1][2] < Len(original_doc) - 1
    /\ \E k \in 1..Len(final_doc) : \E j \in 1..Len(final_doc[k].runs) :
          /\ final_doc[k].runs[j].bold = "True"
          /\ final_doc[k].runs[j].underline = "True"
          /\ final_doc[k].runs[j].size = "26"
          /\ final_doc[k].runs[j].name = "Arial"

---------------------------------------------------------------------------
(* Chapters with several Notes sections *)

\* the longest chapter with several sections
MaxMergeParas == 5

RoeText == <<"R", "o", "e">>
SeeOneText == <<"S", "e", "e", " ", "[", "1", "]", ".">>

\* a citation of reference 1, a Notes heading and two entries numbered 1
MergeParagraphs ==
    {Para(<<NewRun(SeeOneText)>>),
     Para(<<NewRun(<<"N", "o", "t", "e", "s">>)>>),
     Para(<<NewRun(<<"1", ".", " ">> \o DoeText)>>),
     Para(<<NewRun(<<"1", ".", " ">> \o RoeText)>>)}

MergeDocuments == UNION {[1..n -> MergeParagraphs] : n \in 1..MaxMergeParas}

InitMerge ==
    /\ pc \in {"process_single_chapter", "process_chapter_citations"}
    /\ doc \in MergeDocuments
    /\ orig_doc = doc
    /\ paragraphs = <<>>
    /\ result = <<0, 0>>
    /\ style \in Styles
    /\ allow_paren = FALSE
    /\ delete_notes_sections = FALSE
    /\ boundaries = <<>>
    /\ IdleBoundaries /\ IdleParagraph /\ IdleAssemble
    /\ IdleSections /\ IdleParaIter /\ IdleFlow

SpecMerge == InitMerge /\ [][NextChapter]_vars

\* the sections as the function that ran finds them
SectionsFound ==
    IF pc = "chapter_done" THEN OrigSections ELSE OrigSections_step4

\* the reference map of the k-th section alone
SectionMap(k) ==
    IF pc = "chapter_done"
    THEN parse_references_advanced(orig_doc, SectionsFound[k][2], SectionsFound[k][3])
    ELSE parse_references(orig_doc, SectionsFound[k][2], SectionsFound[k][3])

\* the sections that define number n
Defining(n) == {k \in 1..Len(SectionsFound) : n \in DOMAIN SectionMap(k)}

\* the text of n in the last section that defines it
LastText(n) ==
    SectionMap(CHOOSE k \in Defining(n) : \A j \in Defining(n) : j <= k)[n]

ChapterDone == pc \in {"chapter_done", "citations_done"}

\* C11: with several Notes sections, a citation of a number that more than
\* one section defines is rewritten with the text of the last section that
\* defines it: every paragraph "See [1]." outside the notes reads "See", the
\* rendering of 1 with that text, and the full stop.
C11_LastSectionWins ==
    (ChapterDone /\ Defining(1) # {}) =>
        \A i \in 1..Len(orig_doc) :
            (/\ (i - 1) \notin NotesRanges(SectionsFound)
             /\ ParaText(orig_doc[i]) = SeeOneText) =>
                ParaText(paragraphs[i]) =
                    <<"S", "e", "e", " ">>
                    \o format_reference(1, LastText(1), style) \o <<".">>

\* two sections give reference 1 different texts and a citation of 1 was
\* rewritten by process_single_chapter
C11_Witness ==
    /\ pc = "chapter_done"
    /\ \E a, b \in Defining(1) : a < b /\ SectionMap(a)[1] # SectionMap(b)[1]
    /\ result[2] > 0
    /\ \E i \in 1..Len(orig_doc) :
          /\ ParaText(orig_doc[i]) = SeeOneText
          /\ ParaText(paragraphs[i]) # SeeOneText

---------------------------------------------------------------------------
(* find_notes_sections on documents with headings, entries and blanks *)

\* the longest document searched for sections
MaxSectionParas == 4

\* a heading word or another text, with or without whitespace around it and
\* before a colon, and with none, one or two colons
HeadingTexts ==
    {pre \o word \o mid \o colon \o post :
        pre \in {<<>>, <<" ">>},
        word \in {<<>>, <<"N", "o", "t", "e", "s">>, <<"N", "O", "T", "E">>,
                  <<"r", "e", "f", "e", "r", "e", "n", "c", "e", "s">>,
                  <<"R", "e", "f", "e", "r", "e", "n", "c", "e">>,
                  <<"E", "n", "d", "n", "o", "t", "e", "s">>, <<"e", "n", "d", "n", "o", "t", "e">>,
                  <<"S", "o", "u", "r", "c", "e", "s">>, <<"s", "o", "u", "r", "c", "e">>,
                  <<"B", "i", "b", "l", "i", "o", "g", "r", "a", "p", "h", "y">>,
                  <<"c", "i", "t", "a", "t", "i", "o", "n", "s">>,
                  <<"C", "i", "t", "a", "t", "i", "o", "n">>,
                  <<"N", "o", "t", "e", "d">>, <<"N", "o", "t", "e", "s", " ", "1">>,
                  <<"M", "y", " ", "n", "o", "t", "e", "s">>, <<"N", " ", "o", "t", "e", "s">>},
        mid \in {<<>>, <<" ">>},
        colon \in {<<>>, <<":">>, <<":", ":">>},
        post \in {<<>>, <<" ">>, <<"\t">>}}

\* documents of one paragraph that is or is not a heading
HeadingDocuments == {<<Para(<<NewRun(t)>>)>> : t \in HeadingTexts}

\* a Notes heading, an entry, an empty paragraph, a paragraph of one space
\* and a chapter title in a heading style
SectionParagraphs ==
    {Para(<<NewRun(<<"N", "o", "t", "e", "s">>)>>),
     Para(<<NewRun(<<"1", ".", " ">> \o DoeText)>>),
     Para(<<>>),
     Para(<<NewRun(<<" ">>)>>),
     [style |-> "Heading 1", runs |-> <<NewRun(<<"C", "h">>)>>]}

SectionDocuments == UNION {[1..n -> SectionParagraphs] : n \in 1..MaxSectionParas}

InitSections ==
    /\ pc \in {"find_notes_sections", "find_notes_sections_step4"}
    /\ doc \in SectionDocuments \cup HeadingDocuments
    /\ orig_doc = doc
    /\ paragraphs = <<>>
    /\ result = <<0, 0>>
    /\ found_sections = <<>>
    /\ section_range = <<0, 0>>
    /\ boundaries = <<>>
    /\ IdleBoundaries /\ IdleParagraph /\ IdleOptions /\ IdleAssemble
    /\ IdleParaIter /\ IdleFlow

\* notes_sections = find_notes_sections(paragraphs), app.py
FindNotesSections ==
    /\ pc = "find_notes_sections"
    /\ found_sections' = find_notes_sections(doc)
    /\ pc' = "sections_done"
    /\ UNCHANGED <<selected_chapters, total_paragraphs, boundaries, paragraph,
                   all_refs, style, allow_paren, changes, orig_paragraph,
                   super_runs, doc, delete_notes_sections, paragraphs, result,
                   orig_doc, original_doc, chapter_docs, final_doc,
                   section_range, document, yielded,
                   candidates, selected_font_size>>

\* notes_sections = find_notes_sections(paragraphs), step 4
FindNotesSectionsStep4 ==
    /\ pc = "find_notes_sections_step4"
    /\ found_sections' = find_notes_sections_step4(doc)
    /\ pc' = "sections_step4_done"
    /\ UNCHANGED <<selected_chapters, total_paragraphs, boundaries, paragraph,
                   all_refs, style, allow_paren, changes, orig_paragraph,
                   super_runs, doc, delete_notes_sections, paragraphs, result,
                   orig_doc, original_doc, chapter_docs, final_doc,
                   section_range, document, yielded,
                   candidates, selected_font_size>>

NextSections == FindNotesSections \/ FindNotesSectionsStep4

SpecSections == InitSections /\ [][NextSections]_vars

SectionsDone == pc \in {"sections_done", "sections_step4_done"}

\* the indices of the paragraphs detected as headings
HeadsFound == {found_sections[k][1] : k \in 1..Len(found_sections)}

AllSpace(s) == \A i \in 1..Len(s) : IsSpace(s[i])

\* text is x, or x and whitespace, then sep, where x is a heading word in any
\* case; gap says whether whitespace may stand before sep
WordThen(text, sep, gap) ==
    \E n \in 0..Len(text) :
        /\ Lower(SubSeq(text, 1, n)) \in HeadingWords
        /\ \E g \in n..Len(text) :
              /\ gap \/ g = n
              /\ AllSpace(SubSeq(text, n + 1, g))
              /\ SubSeq(text, g + 1, Len(text)) = sep

\* text is whitespace, a core and whitespace, where the core is a heading
\* word with at most one colon behind it
IsHeadingText(text, gap) ==
    \E a \in 0..Len(text) : \E b \in a..Len(text) :
        /\ AllSpace(SubSeq(text, 1, a))
        /\ AllSpace(SubSeq(text, b + 1, Len(text)))
        /\ LET core == SubSeq(text, a + 1, b)
           IN  WordThen(core, <<>>, FALSE) \/ WordThen(core, <<":">>, gap)

\* C13 (amended): a paragraph is detected as a heading if and only if its
\* text, after trimming the whitespace around it, one optional trailing colon
\* and the whitespace before that colon, is one of the heading words in any
\* case; an empty paragraph and one with other text are not headings.
C13_HeadingIffWord ==
    SectionsDone =>
        \A i \in 1..Len(doc) :
            ((i - 1) \in HeadsFound) <=> IsHeadingText(ParaText(doc[i]), TRUE)

\* C13 as claimed: trimming the whitespace around the text and one optional
\* trailing colon, nothing between the word and the colon
C13_Claimed ==
    SectionsDone =>
        \A i \in 1..Len(doc) :
            ((i - 1) \in HeadsFound) <=> IsHeadingText(ParaText(doc[i]), FALSE)

\* a heading in capitals with whitespace around it and a colon is detected,
\* in a run of process_single_chapter's find_notes_sections
C13_Witness ==
    /\ pc = "sections_done"
    /\ Len(doc) = 1
    /\ ParaText(doc[1]) = <<" ", "N", "O", "T", "E", ":", " ">>
    /\ HeadsFound = {0}

\* C12: the ranges from a heading to its section's end are pairwise disjoint:
\* the range of an earlier heading ends at or before the index of every later
\* heading, with find_notes_sections of app.py and of step 4.
C12_SectionsDisjoint ==
    SectionsDone =>
        \A a, b \in 1..Len(found_sections) :
            a < b => found_sections[a][3] <= found_sections[b][1]

\* C12 for find_notes_sections of app.py alone
SectionsDisjointApp ==
    pc = "sections_done" =>
        \A a, b \in 1..Len(found_sections) :
            a < b => found_sections[a][3] <= found_sections[b][1]

\* the heading styles of the documents
HeadingStyles == {"Heading 1"}

IsBlank(p) == Strip(ParaText(p)) = <<>>

\* paragraph i (from 0) ends a section whose content starts at start: it is
\* a section heading, or has a heading style and text, or is the second of
\* two empty paragraphs in a row
EndsSection(start, i) ==
    \/ i \in HeadsFound
    \/ doc[i + 1].style \in HeadingStyles /\ ~IsBlank(doc[i + 1])
    \/ i > start /\ IsBlank(doc[i + 1]) /\ IsBlank(doc[i])

\* the first paragraph from start on that ends the section, or the length of
\* the document
SectionEndClaimed(start) ==
    LET stops == {i \in start..(Len(doc) - 1) : EndsSection(start, i)}
    IN  IF stops = {} THEN Len(doc)
        ELSE CHOOSE i \in stops : \A j \in stops : i <= j

\* C19: the end find_section_end returns for a section is the index of the
\* first paragraph after the heading that is another section heading, or has
\* a heading style and text, or is the second of two empty paragraphs in a
\* row; without such a paragraph it is the length of the paragraph sequence.
C19_SectionEnd ==
    SectionsDone =>
        \A k \in 1..Len(found_sections) :
            found_sections[k][3] = SectionEndClaimed(found_sections[k][2])

\* C19 without the heading styles, for find_section_end of app.py alone
SectionEndApp ==
    pc = "sections_done" =>
        \A k \in 1..Len(found_sections) :
            found_sections[k][3] =
                (LET start == found_sections[k][2]
                     stops == {i \in start..(Len(doc) - 1) :
                                 \/ i \in HeadsFound
                                 \/ i > start /\ IsBlank(doc[i + 1]) /\ IsBlank(doc[i])}
                 IN  IF stops = {} THEN Len(doc)
                     ELSE CHOOSE i \in stops : \A j \in stops : i <= j)

---------------------------------------------------------------------------
(* The reference parsers on the paragraphs of a section *)

\* the longest sequence of paragraphs parsed
MaxEntryParas == 4

\* two entries numbered 1, one numbered 2 and one numbered 0, each with
\* another separator, a line without a number and an empty paragraph
EntryParagraphs ==
    {Para(<<NewRun(<<"1", ".", " ">> \o DoeText)>>),
     Para(<<NewRun(<<"1", " ">> \o RoeText)>>),
     Para(<<NewRun(<<"2", ")">> \o DoeText)>>),
     Para(<<NewRun(<<"0", ":", " ">> \o DoeText)>>),
     Para(<<NewRun(<<"a", "n", "d", " ", "s", "o">>)>>),
     Para(<<>>)}

EntryDocuments == UNION {[1..n -> EntryParagraphs] : n \in 1..MaxEntryParas}

\* the ranges parsed: the whole sequence, the sequence after a heading, one
\* that ends before the last paragraph and one that ends past it
EntryRanges(n) ==
    {<<0, n>>, <<0, n + 1>>} \cup (IF n >= 2 THEN {<<1, n>>, <<1, n - 1>>} ELSE {})

InitParse ==
    /\ pc \in {"parse_references_advanced", "parse_references"}
    /\ doc \in EntryDocuments
    /\ orig_doc = doc
    /\ section_range \in EntryRanges(Len(doc))
    /\ all_refs = EmptyRefs
    /\ paragraphs = <<>>
    /\ result = <<0, 0>>
    /\ found_sections = <<>>
    /\ boundaries = <<>>
    /\ paragraph = NoParagraph /\ orig_paragraph = NoParagraph
    /\ changes = 0 /\ super_runs = <<>>
    /\ IdleBoundaries /\ IdleOptions /\ IdleAssemble /\ IdleParaIter /\ IdleFlow

\* refs = parse_references_advanced(paragraphs, section_start, section_end)
ParseReferencesAdvanced ==
    /\ pc = "parse_references_advanced"
    /\ all_refs' = parse_references_advanced(doc, section_range[1], section_range[2])
    /\ pc' = "parse_advanced_done"
    /\ UNCHANGED <<selected_chapters, total_paragraphs, boundaries, paragraph,
                   style, allow_paren, changes, orig_paragraph, super_runs, doc,
                   delete_notes_sections, paragraphs, result, orig_doc,
                   original_doc, chapter_docs, final_doc, found_sections,
                   section_range, document, yielded,
                   candidates, selected_font_size>>

\* refs = parse_references(paragraphs, start, end), step 4
ParseReferences ==
    /\ pc = "parse_references"
    /\ all_refs' = parse_references(doc, section_range[1], section_range[2])
    /\ pc' = "parse_done"
    /\ UNCHANGED <<selected_chapters, total_paragraphs, boundaries, paragraph,
                   style, allow_paren, changes, orig_paragraph, super_runs, doc,
                   delete_notes_sections, paragraphs, result, orig_doc,
                   original_doc, chapter_docs, final_doc, found_sections,
                   section_range, document, yielded,
                   candidates, selected_font_size>>

NextParse == ParseReferencesAdvanced \/ ParseReferences

SpecParse == InitParse /\ [][NextParse]_vars

ParseDone == pc \in {"parse_advanced_done", "parse_done"}

\* the text of paragraph i (from 0), trimmed
Trimmed(i) == Strip(ParaText(doc[i + 1]))

\* the non-empty paragraphs of the range, as indices from 0
Walked ==
    {i \in section_range[1]..(Min(section_range[2], Len(doc)) - 1) : Trimmed(i) # <<>>}

\* the match of the leading-number patterns of the parser that ran
LeadingNumber(i) ==
    IF pc = "parse_advanced_done" THEN MatchReference(Trimmed(i))
    ELSE MatchReference_step4(Trimmed(i))

\* the walked paragraphs that open a reference
Openers == {i \in Walked : LeadingNumber(i).found}

\* the walked paragraphs that continue the reference opened at i
Continuations(i) ==
    {j \in Walked : j > i /\ \A o \in Openers : o > i => j < o} \ Openers

RECURSIVE JoinLines(_)
JoinLines(S) ==
    IF S = {} THEN <<>>
    ELSE LET j == CHOOSE x \in S : \A y \in S : x <= y
         IN  <<" ">> \o Trimmed(j) \o JoinLines(S \ {j})

\* the text of the reference opened at i: the captured remainder and the
\* lines that continue it, joined by spaces
OpenedText(i) == LeadingNumber(i).rest \o JoinLines(Continuations(i))

\* the paragraphs that open reference number n
Occurrences(n) == {i \in Openers : LeadingNumber(i).num = n}

LastOccurrence(n) == CHOOSE i \in Occurrences(n) : \A j \in Occurrences(n) : j <= i

\* C20: the map the parser returns holds exactly the numbers of the
\* paragraphs that match a leading-number pattern, each with the text of its
\* last occurrence: the captured remainder and, space-joined, the lines
\* without a number that follow it up to the next numbered paragraph; lines
\* before the first numbered paragraph are ignored, and the reference open at
\* the end is committed.  For parse_references_advanced and parse_references.
C20_ParserStateMachine ==
    ParseDone =>
        /\ DOMAIN all_refs = {LeadingNumber(i).num : i \in Openers}
        /\ \A n \in DOMAIN all_refs : all_refs[n] = OpenedText(LastOccurrence(n))

\* C20 for parse_references_advanced alone
ParserStateMachineApp ==
    pc = "parse_advanced_done" =>
        /\ DOMAIN all_refs = {LeadingNumber(i).num : i \in Openers}
        /\ \A n \in DOMAIN all_refs : all_refs[n] = OpenedText(LastOccurrence(n))

---------------------------------------------------------------------------
(* The order, the page breaks and the run properties of the rejoined document *)

\* where the i-th chapter document (i from 1) starts in the final document:
\* behind the paragraphs of the chapters before it and one page break each
ChapterOffset(i) ==
    Sum([j \in 1..(i - 1) |-> Len(chapter_docs[j])]) + (i - 1)

IsPageBreak(p) == ParaText(p) = <<"PAGEBREAK">>

\* C14: the final document holds the paragraphs of the chapter documents in
\* the order of the list and, within a chapter, in their order, with one page
\* break before every chapter but the first: n chapters give n-1 page breaks,
\* and no paragraph is dropped or doubled.
C14_RejoinOrderAndBreaks ==
    Rejoined =>
        LET n == Len(chapter_docs)
        IN  /\ Len(final_doc) = ChapterOffset(n) + Len(chapter_docs[n])
            /\ \A i \in 1..n : \A k \in 1..Len(chapter_docs[i]) :
                  /\ SameFormatting(final_doc[ChapterOffset(i) + k], chapter_docs[i][k])
                  /\ final_doc[ChapterOffset(i) + k].style = chapter_docs[i][k].style
            /\ \A i \in 2..n : IsPageBreak(final_doc[ChapterOffset(i)])
            /\ Cardinality({k \in 1..Len(final_doc) : IsPageBreak(final_doc[k])}) = n - 1

\* three chapters rejoined by rejoin_chapters, with two page breaks
C14_Witness ==
    /\ pc = "rejoin_done"
    /\ Len(chapter_docs) = 3
    /\ Len(final_doc) = Len(original_doc) + 2
    /\ \E k \in 1..Len(final_doc) : Len(final_doc[k].runs) = 2
    /\ Cardinality({k \in 1..Len(final_doc) : IsPageBreak(final_doc[k])}) = 2

\* C15: every run of the final document has the superscript and subscript
\* flags of the run of the chapter document it was copied from, with
\* rejoin_chapters and with rejoin_chapters_with_formatting.
C15_RejoinKeepsSuperscript ==
    Rejoined =>
        \A i \in 1..Len(chapter_docs) : \A k \in 1..Len(chapter_docs[i]) :
            LET old == chapter_docs[i][k]
                new == final_doc[ChapterOffset(i) + k]
            IN  \A r \in 1..Len(old.runs) :
                    /\ r \in 1..Len(new.runs)
                    /\ new.runs[r].superscript = old.runs[r].superscript
                    /\ new.runs[r].subscript = old.runs[r].subscript

\* C15 for rejoin_chapters_with_formatting alone
RejoinKeepsSuperscriptStep5 ==
    pc = "rejoin_with_formatting_done" =>
        \A i \in 1..Len(chapter_docs) : \A k \in 1..Len(chapter_docs[i]) :
            LET old == chapter_docs[i][k]
                new == final_doc[ChapterOffset(i) + k]
            IN  \A r \in 1..Len(old.runs) :
                    /\ new.runs[r].superscript = old.runs[r].superscript
                    /\ new.runs[r].subscript = old.runs[r].subscript

---------------------------------------------------------------------------
(* The main flow from the candidates to the chapter boundaries, app.py *)

\* the candidates at the paragraphs S, in the order of the paragraphs, as
\* get_chapter_candidates returns them
CandidatesAt(S) ==
    LET idx == SortedSet(S) IN [k \in 1..Len(idx) |-> Candidate(idx[k])]

InitFlow ==
    /\ pc = "select_chapters"
    /\ total_paragraphs \in 1..MaxParas
    /\ selected_font_size = "26"
    /\ candidates \in {CandidatesAt(S) : S \in SUBSET (0..(total_paragraphs - 1))}
    /\ selected_chapters = <<>>
    /\ boundaries = <<>>
    /\ IdleParagraph /\ IdleOptions /\ IdleChapter /\ IdleAssemble
    /\ IdleSections /\ IdleParaIter

\* if not candidates: st.warning(...); st.stop()
NoCandidates ==
    /\ pc = "select_chapters"
    /\ candidates = <<>>
    /\ pc' = "stopped"
    /\ UNCHANGED <<selected_chapters, total_paragraphs, boundaries, paragraph,
                   all_refs, style, allow_paren, changes, orig_paragraph,
                   super_runs, doc, delete_notes_sections, paragraphs, result,
                   orig_doc, original_doc, chapter_docs, final_doc,
                   found_sections, section_range, document, yielded,
                   candidates, selected_font_size>>

\* the checkboxes: the candidates ticked, in the order of the candidates;
\* without a tick the flow warns and stops
SelectChapterHeaders ==
    /\ pc = "select_chapters"
    /\ candidates # <<>>
    /\ \E ticked \in SUBSET (1..Len(candidates)) :
          LET selected_indices == SortedSet(ticked)
          IN  IF selected_indices = <<>>
              THEN pc' = "stopped" /\ UNCHANGED selected_chapters
              ELSE /\ selected_chapters' =
                        [k \in 1..Len(selected_indices) |-> candidates[selected_indices[k]]]
                   /\ pc' = "create_chapter_boundaries"
    /\ UNCHANGED <<total_paragraphs, boundaries, paragraph,
                   all_refs, style, allow_paren, changes, orig_paragraph,
                   super_runs, doc, delete_notes_sections, paragraphs, result,
                   orig_doc, original_doc, chapter_docs, final_doc,
                   found_sections, section_range, document, yielded,
                   candidates, selected_font_size>>

NextFlow == NoCandidates \/ SelectChapterHeaders \/ CreateChapterBoundaries

SpecFlow == InitFlow /\ [][NextFlow]_vars

\* one boundary from paragraph 0 to the last paragraph
WholeDocument ==
    /\ Len(boundaries) = 1
    /\ boundaries[1][1] = 0
    /\ boundaries[1][2] = total_paragraphs - 1

\* C16: when no chapter start is detected or selected, the flow ends with
\* exactly one boundary, from paragraph 0 to paragraph P-1, so that the whole
\* document is processed as a single chapter.
C16_NoSelectionWholeDocument ==
    (pc \in {"stopped", "boundaries_done"} /\ selected_chapters = <<>>) =>
        WholeDocument

\* ---------------------------------------------------------------------------
\* The removal of the Notes sections (SpecChapter)
\* ---------------------------------------------------------------------------

\* the indices of the detected section ranges, headings included
DetectedRanges ==
    NotesRanges(IF pc = "chapter_done" THEN OrigSections ELSE OrigSections_step4)

\* the paragraphs ps without those at the indices in gone
Without(ps, gone) ==
    LET kept == SortedSet((0..(Len(ps) - 1)) \ gone)
    IN  [k \in 1..Len(kept) |-> ps[kept[k] + 1]]

\* C26: when the removal of the Notes sections is asked for, the document
\* holds, when the processing returns, the rewritten paragraphs outside the
\* detected section ranges and none of a detected range, headings included;
\* also when sections were detected and no reference entry was parsed.
C26_DetectedSectionsRemoved ==
    (ChapterDone /\ delete_notes_sections) =>
        doc = Without(paragraphs, DetectedRanges)

\* C26 where a reference was parsed
SectionsRemovedWithReferences ==
    (/\ ChapterDone /\ delete_notes_sections
     /\ DOMAIN (IF pc = "chapter_done" THEN OrigRefs ELSE OrigRefs_step4) # {}) =>
        doc = Without(paragraphs, DetectedRanges)

\* without a parsed reference nothing is removed
NothingRemovedWithoutReferences ==
    (/\ ChapterDone
     /\ DOMAIN (IF pc = "chapter_done" THEN OrigRefs ELSE OrigRefs_step4) = {}) =>
        doc = orig_doc

\* ---------------------------------------------------------------------------
\* The replacement count of a chapter (SpecChapter)
\* ---------------------------------------------------------------------------

\* the reference map of the chapter as the function at hand parses it
RefsParsed == IF pc = "chapter_done" THEN OrigRefs ELSE OrigRefs_step4

\* run k was superscript and is no longer
FlagCleared(before, after, k) ==
    Truthy(before.runs[k].superscript) /\ ~Truthy(after.runs[k].superscript)

\* the renderings of all the numbers of a run joined by "; "
RunRendering(run) ==
    LET nums == FindAllNums(run.text)
    IN  Join(<<";", " ">>,
             [i \in 1..Len(nums) |-> Rendered(nums[i], RefsParsed[nums[i]], style)])

\* the paragraph's text with the rewritten superscript runs rendered and
\* nothing else changed
TextWithRenderedRuns(before, after) ==
    ConcatTexts([k \in 1..Len(before.runs) |->
                    [text |-> IF FlagCleared(before, after, k)
                              THEN RunRendering(before.runs[k])
                              ELSE before.runs[k].text]])

\* the superscript runs rewritten, and one more when the bracket and paren
\* passes changed the text
ParagraphCount(before, after) ==
    Cardinality({k \in 1..Len(before.runs) : FlagCleared(before, after, k)})
    + (IF ParaText(after) # TextWithRenderedRuns(before, after) THEN 1 ELSE 0)

\* the counts of the paragraphs outside the section ranges, from the i-th on
RECURSIVE CountFrom(_)
CountFrom(i) ==
    IF i > Len(orig_doc) THEN 0
    ELSE (IF (i - 1) \in DetectedRanges THEN 0
          ELSE ParagraphCount(orig_doc[i], paragraphs[i])) + CountFrom(i + 1)

Within(a, b) ==
    \E i \in 0..(Len(b) - Len(a)) : SubSeq(b, i + 1, i + Len(a)) = a

\* run k of a run list is superscript and holds the rendering of a reference
SuperscriptReference(runs, k) ==
    /\ Truthy(runs[k].superscript)
    /\ \E n \in DOMAIN all_refs :
          Within(Rendered(n, all_refs[n], style), runs[k].text)

\* C18: after the citation processing of a paragraph no run whose
\* superscript flag is set holds a rewritten reference: rewritten reference
\* text is baseline, also when the bracket pass collapses the text into a
\* first run that was an ineligible superscript run.
C18_RewrittenTextIsBaseline ==
    pc = "paragraph_done" =>
        \A k \in 1..Len(paragraph.runs) : ~SuperscriptReference(paragraph.runs, k)

\* C18 for the loop over the superscript runs alone: when it ends, no
\* superscript run holds a rewritten reference.
SuperscriptLoopIsBaseline ==
    pc = "paragraph_done" =>
        \A k \in 1..Len(super_runs) : ~SuperscriptReference(super_runs, k)

\* C18 where the text is not collapsed into a superscript run: the first run
\* is baseline when the bracket pass starts.
BaselineUnlessFirstRunSuperscript ==
    (/\ pc = "paragraph_done"
     /\ super_runs # <<>>
     /\ ~Truthy(super_runs[1].superscript)) =>
        \A k \in 1..Len(paragraph.runs) : ~SuperscriptReference(paragraph.runs, k)

\* ---------------------------------------------------------------------------
\* The literal form of what a marker is replaced by (SpecParagraph)
\* ---------------------------------------------------------------------------

\* a paragraph of three runs whose second run is one parenthesized marker
IsParenParagraph(p) ==
    /\ Len(p.runs) = 3
    /\ Markers(p.runs[2].text, "(", ")") = <<p.runs[2].text>>

\* the literal forms of the numbers a marker resolves to, joined by "; "
ExactEntries(marker) ==
    LET nums == expand_number_range(Inner(marker))
    IN  Join(<<";", " ">>,
             [i \in 1..Len(nums) |-> Rendered(nums[i], all_refs[nums[i]], style)])

\* the same with a space before each form, as format_reference returns them
SpacedEntries(marker) ==
    LET nums == expand_number_range(Inner(marker))
    IN  Join(<<";", " ">>,
             [i \in 1..Len(nums) |->
                <<" ">> \o Rendered(nums[i], all_refs[nums[i]], style)])

\* the marker of the second run was replaced
MarkerReplaced ==
    /\ pc = "paragraph_done"
    /\ \/ IsBracketParagraph(orig_paragraph)
       \/ (IsParenParagraph(orig_paragraph) /\ allow_paren)
    /\ ParaText(paragraph) # ParaText(orig_paragraph)

\* a superscript run was rewritten
SuperscriptRewritten(k) ==
    /\ pc = "paragraph_done"
    /\ k \in SuperscriptRuns
    /\ super_runs[k] # orig_paragraph.runs[k]

\* C21: every rendered reference is exactly one of the three literal forms
\* of the style, with no character before or after it, and the entries of a
\* marker that resolves to several numbers are separated by exactly "; ",
\* for superscript markers and for bracketed and parenthesized ones.
C21_RenderedLiteralForms ==
    /\ \A k \in 1..Len(orig_paragraph.runs) :
          SuperscriptRewritten(k) => super_runs[k].text = SuperRendering(k)
    /\ MarkerReplaced =>
          ParaText(paragraph) =
              orig_paragraph.runs[1].text
              \o ExactEntries(orig_paragraph.runs[2].text)
              \o orig_paragraph.runs[3].text

\* C21 for the superscript markers alone
SuperscriptLiteralForms ==
    \A k \in 1..Len(orig_paragraph.runs) :
        SuperscriptRewritten(k) => super_runs[k].text = SuperRendering(k)

\* What the bracket and paren passes insert: each form with a space before
\* it, so two spaces follow each semicolon.
MarkerSpacedForms ==
    MarkerReplaced =>
        ParaText(paragraph) =
            orig_paragraph.runs[1].text
            \o SpacedEntries(orig_paragraph.runs[2].text)
            \o orig_paragraph.runs[3].text

\* ---------------------------------------------------------------------------
\* What the bracket and paren passes do to the runs
\* ---------------------------------------------------------------------------

\* the runs `after` hold one text, in the first run, all others are empty,
\* and nothing but the texts differs from the runs `before`
SingleRunHolds(before, after) ==
    /\ Len(after) = Len(before)
    /\ after # <<>>
    /\ after[1].text = ConcatTexts(after)
    /\ \A k \in 2..Len(after) : after[k].text = <<>>
    /\ \A k \in 1..Len(after) :
          [after[k] EXCEPT !.text = before[k].text] = before[k]

\* C22: when the bracket and paren passes change the paragraph's text, the
\* whole new text is afterwards in one run, the first, and every other run
\* is empty; when they change nothing, the runs are as the passes found them.
C22_CollapseIntoFirstRun ==
    pc = "paragraph_done" =>
        IF ParaText(paragraph) # TextBefore
        THEN SingleRunHolds(super_runs, paragraph.runs)
        ELSE paragraph.runs = super_runs

\* a paragraph of three runs whose text the bracket pass changed: the text
\* is in the first run, the marker's run and the last one are empty
C22_Witness ==
    /\ pc = "paragraph_done"
    /\ Len(orig_paragraph.runs) = 3
    /\ paragraph.runs[2].text = <<>> /\ super_runs[2].text # <<>>
    /\ paragraph.runs[3].text = <<>> /\ super_runs[3].text # <<>>
    /\ Len(paragraph.runs[1].text) > Len(TextBefore)

\* C22 for process_chapter_citations, which has the bracket pass only
CollapseIntoFirstRun_step4 ==
    (pc = "citations_done" /\ paragraphs # <<>>) =>
        \A i \in 1..Len(orig_doc) :
            IF ParaText(paragraphs[i]) # ParaText(orig_doc[i])
            THEN SingleRunHolds(orig_doc[i].runs, paragraphs[i].runs)
            ELSE paragraphs[i] = orig_doc[i]

\* ---------------------------------------------------------------------------
\* Reference texts that hold markers themselves: replace_citations_in_paragraph
\* on the paragraphs of SpecParagraph with such reference maps
\* ---------------------------------------------------------------------------

\* reference 1 with a text that holds a bracketed marker, a parenthesized
\* marker, only a number, or its own marker; reference 2 plain
MarkerRefMaps ==
    {(1 :> <<"a", " ", "[", "2", "]">>) @@ (2 :> RefText(2)),
     (1 :> <<"a", " ", "(", "2", ")">>) @@ (2 :> RefText(2)),
     (1 :> <<"2">>) @@ (2 :> RefText(2)),
     (1 :> <<"[", "1", "]">>) @@ (2 :> RefText(2)),
     RefsOf(1..2)}

InitRescan ==
    /\ pc = "replace_citations_in_paragraph"
    /\ paragraph \in MarkerParagraphs
    /\ orig_paragraph = paragraph
    /\ all_refs \in MarkerRefMaps
    /\ style \in Styles
    /\ allow_paren \in BOOLEAN
    /\ changes = 0
    /\ super_runs = <<>>
    /\ delete_notes_sections = FALSE
    /\ boundaries = <<>>
    /\ IdleBoundaries /\ IdleChapter /\ IdleAssemble
    /\ IdleSections /\ IdleParaIter /\ IdleFlow

SpecRescan == InitRescan /\ [][NextParagraph]_vars

\* C25: text a replacement has inserted is not rewritten again in the same
\* call: the text put into a rewritten superscript run is still in the
\* paragraph when the call returns, and what the bracket pass has put in a
\* marker's place is what stands there when the call returns, also when a
\* reference's text holds something that looks like a marker.
C25_InsertedTextNotRewritten ==
    /\ \A k \in 1..Len(orig_paragraph.runs) :
          SuperscriptRewritten(k) => Within(super_runs[k].text, ParaText(paragraph))
    /\ (/\ pc = "paragraph_done"
        /\ DOMAIN all_refs # {}
        /\ IsBracketParagraph(orig_paragraph)
        /\ Replaceable(expand_number_range(Inner(orig_paragraph.runs[2].text)), all_refs)) =>
          ParaText(paragraph) =
              orig_paragraph.runs[1].text
              \o SpacedEntries(orig_paragraph.runs[2].text)
              \o orig_paragraph.runs[3].text

\* C25 for the superscript runs alone
SuperscriptTextNotRewritten ==
    \A k \in 1..Len(orig_paragraph.runs) :
        SuperscriptRewritten(k) => Within(super_runs[k].text, ParaText(paragraph))

\* C25 for the bracket pass with the paren pass off: one re.sub does not
\* read again what it has inserted
BracketTextNotRewritten ==
    (/\ pc = "paragraph_done" /\ ~allow_paren
     /\ DOMAIN all_refs # {}
     /\ IsBracketParagraph(orig_paragraph)
     /\ Replaceable(expand_number_range(Inner(orig_paragraph.runs[2].text)), all_refs)) =>
        ParaText(paragraph) =
            orig_paragraph.runs[1].text
            \o SpacedEntries(orig_paragraph.runs[2].text)
            \o orig_paragraph.runs[3].text

\* ---------------------------------------------------------------------------
\* para_iter: the document as a tree of blocks.  A block is a paragraph or a
\* table, a table is a sequence of rows, a row a sequence of cells, and a cell
\* holds blocks again.  A paragraph's handle is its position in document flow.
\* ---------------------------------------------------------------------------

MaxDocSize == 4

ParagraphBlock(i) == [kind |-> "paragraph", index |-> i, rows |-> <<>>]

TableBlock(rows) == [kind |-> "table", index |-> -1, rows |-> rows]

\* the paragraphs of a block list in document flow, tables entered where
\* they stand, at every depth
RECURSIVE FlowOfBlocks(_), FlowOfRows(_), FlowOfCells(_)
FlowOfBlocks(blocks) ==
    IF blocks = <<>> THEN <<>>
    ELSE (IF Head(blocks).kind = "paragraph"
          THEN <<Head(blocks).index>>
          ELSE FlowOfRows(Head(blocks).rows)) \o FlowOfBlocks(Tail(blocks))

FlowOfRows(rows) ==
    IF rows = <<>> THEN <<>>
    ELSE FlowOfCells(Head(rows)) \o FlowOfRows(Tail(rows))

FlowOfCells(cells) ==
    IF cells = <<>> THEN <<>>
    ELSE FlowOfBlocks(Head(cells)) \o FlowOfCells(Tail(cells))

\* the block lists of a given size whose paragraphs are numbered from
\* `first` in document flow; a paragraph and a cell count one each
RECURSIVE BlockLists(_, _), CellLists(_, _), RowLists(_, _)
BlockLists(size, first) ==
    IF size = 0 THEN {<<>>}
    ELSE UNION {UNION {{<<b>> \o rest :
                          rest \in BlockLists(size - k,
                                              first + Len(FlowOfBlocks(<<b>>)))} :
                       b \in (IF k = 1 THEN {ParagraphBlock(first)} ELSE {}) \cup
                             {TableBlock(rows) : rows \in RowLists(k, first)}} :
                k \in 1..size}

CellLists(size, first) ==
    IF size = 0 THEN {<<>>}
    ELSE UNION {UNION {{<<c>> \o rest :
                          rest \in CellLists(size - k,
                                             first + Len(FlowOfBlocks(c)))} :
                       c \in BlockLists(k - 1, first)} :
                k \in 1..size}

RowLists(size, first) ==
    IF size = 0 THEN {<<>>}
    ELSE UNION {UNION {{<<r>> \o rest :
                          rest \in RowLists(size - k,
                                            first + Len(FlowOfCells(r)))} :
                       r \in CellLists(k, first)} :
                k \in 1..size}

Documents == UNION {BlockLists(size, 0) : size \in 0..MaxDocSize}

\* doc.paragraphs, c.paragraphs: the paragraphs that are direct children
ChildParagraphs(blocks) ==
    LET IsParagraph(b) == b.kind = "paragraph"
        direct == SelectSeq(blocks, IsParagraph)
    IN  [k \in 1..Len(direct) |-> direct[k].index]

\* doc.tables: the tables that are direct children
ChildTables(blocks) ==
    LET IsTable(b) == b.kind = "table"
    IN  SelectSeq(blocks, IsTable)

\* for c in r.cells: for p in c.paragraphs: yield p
RECURSIVE YieldCells(_)
YieldCells(cells) ==
    IF cells = <<>> THEN <<>>
    ELSE ChildParagraphs(Head(cells)) \o YieldCells(Tail(cells))

\* for r in t.rows: ...
RECURSIVE YieldRows(_)
YieldRows(rows) ==
    IF rows = <<>> THEN <<>>
    ELSE YieldCells(Head(rows)) \o YieldRows(Tail(rows))

\* for t in doc.tables: ...
RECURSIVE YieldTables(_)
YieldTables(tables) ==
    IF tables = <<>> THEN <<>>
    ELSE YieldRows(Head(tables).rows) \o YieldTables(Tail(tables))

\* the handles para_iter yields, in the order it yields them
para_iter(d) == ChildParagraphs(d) \o YieldTables(ChildTables(d))

InitParaIter ==
    /\ pc = "para_iter"
    /\ document \in Documents
    /\ yielded = <<>>
    /\ IdleBoundaries /\ boundaries = <<>> /\ IdleParagraph /\ IdleOptions /\ IdleChapter
    /\ IdleAssemble /\ IdleSections /\ IdleFlow

\* one step of the generator: the next handle is yielded
ParaIterYield ==
    /\ pc = "para_iter"
    /\ Len(yielded) < Len(para_iter(document))
    /\ yielded' = Append(yielded, para_iter(document)[Len(yielded) + 1])
    /\ UNCHANGED <<pc, selected_chapters, total_paragraphs, boundaries,
                   paragraph, all_refs, style, allow_paren, changes,
                   orig_paragraph, super_runs, doc, delete_notes_sections,
                   paragraphs, result, orig_doc, original_doc, chapter_docs,
                   final_doc, found_sections, section_range, document,
                   candidates, selected_font_size>>

\* the loops are exhausted: the generator returns
ParaIterReturn ==
    /\ pc = "para_iter"
    /\ Len(yielded) = Len(para_iter(document))
    /\ pc' = "para_iter_done"
    /\ UNCHANGED <<selected_chapters, total_paragraphs, boundaries,
                   paragraph, all_refs, style, allow_paren, changes,
                   orig_paragraph, super_runs, doc, delete_notes_sections,
                   paragraphs, result, orig_doc, original_doc, chapter_docs,
                   final_doc, found_sections, section_range, document,
                   yielded, candidates, selected_font_size>>

NextParaIter == ParaIterYield \/ ParaIterReturn

SpecParaIter == InitParaIter /\ [][NextParaIter]_vars

FairSpecParaIter == SpecParaIter /\ WF_vars(NextParaIter)

ParaIterDone == pc = "para_iter_done"

\* C17: when para_iter has returned, it has yielded every paragraph of the
\* document, those of tables nested in table cells at any depth included,
\* each in its document-flow position.
C17_ParaIterFlowOrder ==
    ParaIterDone => yielded = FlowOfBlocks(document)

\* C17, the coverage alone: every paragraph of the document was yielded,
\* whatever the order.
ParaIterCoversAll ==
    ParaIterDone =>
        \A i \in 1..Len(FlowOfBlocks(document)) :
            \E k \in 1..Len(yielded) : yielded[k] = FlowOfBlocks(document)[i]

\* C17, the termination: the generator returns on every document.
ParaIterTerminates == <>ParaIterDone

\* no table stands inside a table cell
RECURSIVE UnnestedRows(_), UnnestedCells(_)
UnnestedRows(rows) ==
    rows = <<>> \/ (UnnestedCells(Head(rows)) /\ UnnestedRows(Tail(rows)))

UnnestedCells(cells) ==
    cells = <<>> \/ (/\ ChildTables(Head(cells)) = <<>>
                     /\ UnnestedCells(Tail(cells)))

Unnested(d) ==
    \A k \in 1..Len(d) : d[k].kind = "table" => UnnestedRows(d[k].rows)

\* What the code does keep: without nested tables every paragraph is
\* yielded exactly once, and a document whose tables all follow its last
\* body paragraph is yielded in flow order.
ParaIterUnnested ==
    (ParaIterDone /\ Unnested(document)) =>
        /\ Len(yielded) = Len(FlowOfBlocks(document))
        /\ \A i \in 1..Len(yielded) : \E k \in 1..Len(yielded) : yielded[k] = i - 1
        /\ (\A j, k \in 1..Len(document) :
               (document[j].kind = "table" /\ document[k].kind = "paragraph")
                   => k < j)
           => yielded = FlowOfBlocks(document)

\* ---------------------------------------------------------------------------
\* The chapter candidates of a font size: get_chapter_candidates (app.py) and
\* find_paragraphs_with_font (step 2).  A size is "None" or a number of
\* points; a run's size is what the run itself sets.
\* ---------------------------------------------------------------------------

MaxFontParas == 2

\* doc.styles with the size each style's font sets
FontStyles == {"Normal", "Body", "Heading 1"}

StyleSize(name) ==
    IF name = "Heading 1" THEN "26" ELSE IF name = "Body" THEN "12" ELSE "None"

\* style_fonts: the styles whose font sets a size, with that size
style_fonts == [name \in {n \in FontStyles : StyleSize(n) # "None"} |-> StyleSize(name)]

SizedRun(text, size) == [NewRun(text) EXCEPT !.size = size]

\* the runs of a paragraph: one or two runs, sized or not
FontRuns ==
    {<<SizedRun(<<"a">>, z)>> : z \in {"None", "12", "26"}}
    \cup {<<SizedRun(<<"a">>, y), SizedRun(<<"b">>, z)>> :
            y \in {"None", "12"}, z \in {"12", "26"}}

\* the paragraphs: text in each style, a paragraph of whitespace, one without runs
FontParagraphs ==
    {[style |-> n, runs |-> r] : n \in FontStyles, r \in FontRuns}
    \cup {[style |-> "Heading 1", runs |-> <<SizedRun(<<" ">>, "26")>>],
          [style |-> "Heading 1", runs |-> <<>>]}

FontDocuments == UNION {[1..n -> FontParagraphs] : n \in 1..MaxFontParas}

\* the candidates built from the paragraphs whose flag has_target_font is set
RECURSIVE CandidatesFrom(_, _, _)
CandidatesFrom(d, i, flagged) ==
    IF i >= Len(d) THEN <<>>
    ELSE (IF Strip(ParaText(d[i + 1])) # <<>> /\ i \in flagged
          THEN <<[index |-> i, text |-> Strip(ParaText(d[i + 1]))]>>
          ELSE <<>>) \o CandidatesFrom(d, i + 1, flagged)

\* get_chapter_candidates(doc, selected_font_size): a run that sets the size
get_chapter_candidates(d, size) ==
    CandidatesFrom(d, 0,
        {i \in 0..(Len(d) - 1) :
            \E k \in 1..Len(d[i + 1].runs) :
                d[i + 1].runs[k].size # "None" /\ d[i + 1].runs[k].size = size})

\* find_paragraphs_with_font(doc, target_font_size): the paragraph's style
\* has the size, or else a run sets it; the search of the paragraph's XML for
\* the doubled size finds what a run sets
find_paragraphs_with_font(d, size) ==
    CandidatesFrom(d, 0,
        {i \in 0..(Len(d) - 1) :
            \/ /\ d[i + 1].style \in DOMAIN style_fonts
               /\ style_fonts[d[i + 1].style] = size
            \/ \E k \in 1..Len(d[i + 1].runs) : d[i + 1].runs[k].size = size})

InitCandidates ==
    /\ pc \in {"get_chapter_candidates", "find_paragraphs_with_font"}
    /\ original_doc \in FontDocuments
    /\ selected_font_size \in {"12", "26"}
    /\ candidates = <<>>
    /\ chapter_docs = <<>> /\ final_doc = <<>>
    /\ boundaries = <<>>
    /\ IdleBoundaries /\ IdleParagraph /\ IdleOptions /\ IdleChapter
    /\ IdleSections /\ IdleParaIter

\* candidates = get_chapter_candidates(doc, selected_font_size)
GetChapterCandidates ==
    /\ pc = "get_chapter_candidates"
    /\ candidates' = get_chapter_candidates(original_doc, selected_font_size)
    /\ pc' = "candidates_done"
    /\ UNCHANGED <<selected_chapters, total_paragraphs, boundaries, paragraph,
                   all_refs, style, allow_paren, changes, orig_paragraph,
                   super_runs, doc, delete_notes_sections, paragraphs, result,
                   orig_doc, original_doc, chapter_docs, final_doc,
                   found_sections, section_range, document, yielded,
                   selected_font_size>>

\* candidates = find_paragraphs_with_font(doc, target_font_size)
FindParagraphsWithFont ==
    /\ pc = "find_paragraphs_with_font"
    /\ candidates' = find_paragraphs_with_font(original_doc, selected_font_size)
    /\ pc' = "candidates_step2_done"
    /\ UNCHANGED <<selected_chapters, total_paragraphs, boundaries, paragraph,
                   all_refs, style, allow_paren, changes, orig_paragraph,
                   super_runs, doc, delete_notes_sections, paragraphs, result,
                   orig_doc, original_doc, chapter_docs, final_doc,
                   found_sections, section_range, document, yielded,
                   selected_font_size>>

NextCandidates == GetChapterCandidates \/ FindParagraphsWithFont

SpecCandidates == InitCandidates /\ [][NextCandidates]_vars

CandidatesDone == pc \in {"candidates_done", "candidates_step2_done"}

CandidateIndices == {candidates[k].index : k \in 1..Len(candidates)}

\* the size a run is shown in: its own when it sets one, else its
\* paragraph style's
ResolvedSize(p, k) ==
    IF p.runs[k].size # "None" THEN p.runs[k].size ELSE StyleSize(p.style)

HasResolvedSize(p, size) ==
    \E k \in 1..Len(p.runs) : ResolvedSize(p, k) = size

\* C24: a paragraph is a candidate for the target size exactly when it is
\* not empty and has a run whose resolved size is the target, the resolved
\* size being the run's own size and the paragraph style's only when the run
\* sets none.
C24_ResolvedFontSize ==
    CandidatesDone =>
        \A i \in 0..(Len(original_doc) - 1) :
            i \in CandidateIndices <=>
                /\ Strip(ParaText(original_doc[i + 1])) # <<>>
                /\ HasResolvedSize(original_doc[i + 1], selected_font_size)

\* C24 for get_chapter_candidates alone and for find_paragraphs_with_font alone
ResolvedFontSizeApp ==
    pc = "candidates_done" =>
        \A i \in 0..(Len(original_doc) - 1) :
            i \in CandidateIndices <=>
                /\ Strip(ParaText(original_doc[i + 1])) # <<>>
                /\ HasResolvedSize(original_doc[i + 1], selected_font_size)

ResolvedFontSizeStep2 ==
    pc = "candidates_step2_done" =>
        \A i \in 0..(Len(original_doc) - 1) :
            i \in CandidateIndices <=>
                /\ Strip(ParaText(original_doc[i + 1])) # <<>>
                /\ HasResolvedSize(original_doc[i + 1], selected_font_size)

\* What both keep: a candidate is not empty, and a non-empty paragraph
\* with a run that itself sets the target size is a candidate.
RunSizeIsCandidate ==
    CandidatesDone =>
        \A i \in 0..(Len(original_doc) - 1) :
            /\ i \in CandidateIndices => Strip(ParaText(original_doc[i + 1])) # <<>>
            /\ (/\ Strip(ParaText(original_doc[i + 1])) # <<>>
                /\ \E k \in 1..Len(original_doc[i + 1].runs) :
                      original_doc[i + 1].runs[k].size = selected_font_size)
               => i \in CandidateIndices

===========================================================================
